---- MODULE Spec2Model ----
(***************************************************************************)
(* A model of recipemd-go: the two goldmark pipelines that turn a markdown *)
(* block tree into a recipe.                                               *)
(*                                                                         *)
(*   pipeline "parser"      : extension.recipeParser.Transform             *)
(*                            (src/unnamed/part_001, lines 308-766)        *)
(*   pipeline "transformer" : parser.recipeTransformer.Transform           *)
(*                            (src/unnamed/part_001, lines 1-249) followed *)
(*                            by recipemd.ExtractRecipe (src/pkg/recipe.go)*)
(*                                                                         *)
(* A Go string is a sequence of one-character strings (<<"1", ",", "5">>), *)
(* a nil pointer is Nil, and an AST node of the input is a record.         *)
(***************************************************************************)
EXTENDS Integers, Sequences, FiniteSets, TLC

VARIABLES
    pc,        \* position of the running function
    text,      \* input text of the comma-splitter / amount-parser runs
    out,       \* result of the function applied to text
    doc,       \* the top-level blocks of the input document, in order
    pipeline,  \* "parser" (recipeParser) or "transformer" (recipeTransformer)
    pos,       \* recipeParser.Transform: position of `child` in doc
    title,
    descriptionParts,
    tagsNode,
    yieldsNode,
    firstDividerFound,
    secondDividerFound,
    currentIngredientList,
    ingredientGroupStack,
    topLevelGroups,
    groups,    \* the IngredientGroup nodes allocated so far; a *IngredientGroup
               \* is an index into this sequence
    instructionParts,
    handled,   \* per visited block: the divider flags on entry and the branch
               \* of the type switch that ran
    root,      \* the children of the document node after Transform
    recipe,    \* the Recipe struct returned by ExtractRecipe
    renderer,      \* the kind of the renderer instance two renders share
    jsonRenderer,  \* the fields of the JSONRenderer instance, word by word
    heap,          \* the arrays of the slices of the JSONRenderer
    walks          \* per render: the callbacks still to run and its writer

textVars == <<text, out>>

renderVars == <<renderer, jsonRenderer, heap, walks>>

parserVars == <<pos, title, descriptionParts, tagsNode, yieldsNode,
                firstDividerFound, secondDividerFound, currentIngredientList,
                ingredientGroupStack, topLevelGroups, groups, instructionParts,
                handled>>

vars == <<pc, textVars, doc, pipeline, renderVars, parserVars, root, recipe>>

----------------------------------------------------------------------------
(* Bounds *)

MaxTextLen == 4

MaxSegBlocks == 5

MaxMetaBlocks == 3

----------------------------------------------------------------------------
(* Characters and Go's strings package *)

Nil == <<"nil">>

NonAsciiDigit == "U+0663"   \* ARABIC-INDIC DIGIT THREE, category Nd
NoBreakSpace  == "U+00A0"   \* NO-BREAK SPACE, category Zs
VerticalTab   == "U+000B"   \* LINE TABULATION, '\v'
NextLine      == "U+0085"   \* NEXT LINE (NEL)

\* the other code points of category Z: U+1680, U+2000..U+200A, U+2028,
\* U+2029, U+202F, U+205F, U+3000
SpaceSeparators ==
    {"U+1680", "U+2000", "U+2001", "U+2002", "U+2003", "U+2004", "U+2005", "U+2006",
     "U+2007", "U+2008", "U+2009", "U+200A", "U+2028", "U+2029", "U+202F", "U+205F",
     "U+3000"}

AsciiDigits == {"0", "1", "2", "3", "4", "5", "6", "7", "8", "9"}

\* the reference notion of the specification: an ASCII decimal digit
IsAsciiDigit(c) == c \in AsciiDigits

\* unicode.IsDigit: every code point of category Nd
IsDigit(c) == c \in AsciiDigits \cup {NonAsciiDigit}

\* unicode.IsSpace, as used by strings.TrimSpace
IsSpace(c) ==
    c \in {" ", "\t", "\n", VerticalTab, "\f", "\r", NextLine, NoBreakSpace}
              \cup SpaceSeparators

RECURSIVE TrimLeft(_)
TrimLeft(s) ==
    IF s = <<>> THEN <<>>
    ELSE IF IsSpace(Head(s)) THEN TrimLeft(Tail(s)) ELSE s

RECURSIVE TrimRight(_)
TrimRight(s) ==
    IF s = <<>> THEN <<>>
    ELSE IF IsSpace(s[Len(s)]) THEN TrimRight(SubSeq(s, 1, Len(s) - 1)) ELSE s

Min(S) == CHOOSE m \in S : \A x \in S : m <= x

Max(S) == CHOOSE m \in S : \A x \in S : m >= x

\* strings.TrimSpace
TrimSpace(s) == TrimRight(TrimLeft(s))

\* strings.Join(parts, sep)
RECURSIVE Join(_, _)
Join(parts, sep) ==
    IF parts = <<>> THEN <<>>
    ELSE IF Len(parts) = 1 THEN parts[1]
    ELSE parts[1] \o sep \o Join(Tail(parts), sep)

\* strings.Split(s, ","): cuts at every comma and keeps the empty pieces
RECURSIVE SplitAcc(_, _, _)
SplitAcc(s, sep, cur) ==
    IF s = <<>> THEN <<cur>>
    ELSE IF Head(s) = sep THEN <<cur>> \o SplitAcc(Tail(s), sep, <<>>)
    ELSE SplitAcc(Tail(s), sep, Append(cur, Head(s)))

Split(s, sep) == SplitAcc(s, sep, <<>>)

\* strings.SplitN(s, " ", 2): cuts at the first separator only
RECURSIVE IndexOf(_, _, _)
IndexOf(s, sep, i) ==
    IF i > Len(s) THEN 0
    ELSE IF s[i] = sep THEN i ELSE IndexOf(s, sep, i + 1)

SplitN2(s, sep) ==
    LET i == IndexOf(s, sep, 1)
    IN  IF i = 0 THEN <<s>>
        ELSE <<SubSeq(s, 1, i - 1), SubSeq(s, i + 1, Len(s))>>

\* the loops "trim each piece, keep the non-empty ones"
RECURSIVE TrimNonEmpty(_)
TrimNonEmpty(parts) ==
    IF parts = <<>> THEN <<>>
    ELSE LET t == TrimSpace(Head(parts))
         IN  (IF t # <<>> THEN <<t>> ELSE <<>>) \o TrimNonEmpty(Tail(parts))

----------------------------------------------------------------------------
(* extension: splitTags, parseAmount, parseYields *)

\* the test of splitTags on a comma at position i (1-based)
CommaIsSeparator(runes, i) ==
    LET before == i > 1 /\ IsDigit(runes[i - 1])
        after  == i < Len(runes) /\ IsDigit(runes[i + 1])
    IN  ~(before /\ after)

\* the flush of the current run: trimmed, appended when it is not empty
FlushTag(tags, current) ==
    LET tag == TrimSpace(current)
    IN  IF tag # <<>> THEN Append(tags, tag) ELSE tags

RECURSIVE splitTagsLoop(_, _, _, _)
splitTagsLoop(runes, i, tags, current) ==
    IF i > Len(runes) THEN FlushTag(tags, current)
    ELSE IF runes[i] = ","
         THEN IF CommaIsSeparator(runes, i)
              THEN splitTagsLoop(runes, i + 1, FlushTag(tags, current), <<>>)
              ELSE splitTagsLoop(runes, i + 1, tags, Append(current, runes[i]))
         ELSE splitTagsLoop(runes, i + 1, tags, Append(current, runes[i]))

splitTags(t) == splitTagsLoop(t, 1, <<>>, <<>>)

\* the character class of parseAmount's numberPattern, [\d.,/\s]; in Go's
\* regexp \d is [0-9] and \s is [\t\n\f\r ]
InNumberClass(c) == c \in AsciiDigits \cup {".", ",", "/", " ", "\t", "\n", "\f", "\r"}

\* length of the longest prefix of s inside the class: the greedy match of
\* ^([\d.,/\s]+), 0 when the pattern does not match
RECURSIVE numberPattern(_)
numberPattern(s) ==
    IF s = <<>> THEN 0
    ELSE IF InNumberClass(Head(s)) THEN 1 + numberPattern(Tail(s)) ELSE 0

\* extension.parseAmount: (factor, unit)
parseAmount(t) ==
    LET trimmed   == TrimSpace(t)
        n         == numberPattern(trimmed)
        remainder == TrimSpace(SubSeq(trimmed, n + 1, Len(trimmed)))
    IN  IF n > 0
        THEN [factor |-> TrimSpace(SubSeq(trimmed, 1, n)),
              unit   |-> IF remainder # <<>> THEN remainder ELSE Nil]
        ELSE [factor |-> trimmed, unit |-> Nil]

\* extension.parseYields: one Yield per segment of splitTags
NewYield(factor, unit) == [kind |-> "Yield", Factor |-> factor, Unit |-> unit]

parseYields(t) ==
    LET parts == splitTags(t)
    IN  [i \in 1..Len(parts) |->
           LET a == parseAmount(TrimSpace(parts[i])) IN NewYield(a.factor, a.unit)]

----------------------------------------------------------------------------
(* pkg/recipe.go: the splits of ExtractRecipe, parseYield, parseAmount *)

\* ExtractRecipe, case *ast.Tags: strings.Split on every comma
ExtractTags(tagsText) == TrimNonEmpty(Split(tagsText, ","))

\* recipemd.parseYield
parseYield(s) ==
    LET parts == SplitN2(s, " ")
    IN  IF Len(parts) = 1 THEN [Amount |-> parts[1], Unit |-> <<>>]
        ELSE [Amount |-> parts[1], Unit |-> parts[2]]

\* recipemd.parseAmount (pkg/recipe.go)
pkgParseAmount(s) ==
    LET parts == SplitN2(s, " ")
    IN  IF Len(parts) = 1 THEN [Quantity |-> parts[1], Unit |-> <<>>]
        ELSE [Quantity |-> parts[1], Unit |-> parts[2]]

\* ExtractRecipe, case *ast.Yields
ExtractYields(yieldsText) ==
    LET ys == TrimNonEmpty(Split(yieldsText, ","))
    IN  [i \in 1..Len(ys) |-> parseYield(ys[i])]

\* Yield.String / Amount.String
YieldString(y) == IF y.Unit = <<>> THEN y.Amount ELSE y.Amount \o <<" ">> \o y.Unit

----------------------------------------------------------------------------
(* renderers of pkg/goldmark-recipemd (src/unnamed/part_002) *)

\* JSONRenderer.renderTags: appends to r.recipe.Tags
JSONRenderTags(t) == TrimNonEmpty(Split(t, ","))

\* JSONRenderer.renderYields: appends to r.recipe.Yields
JSONRenderYields(t) == TrimNonEmpty(Split(t, ","))

\* HTMLRenderer.renderTags: the texts of the span.tag elements written
HTMLRenderTags(t) == TrimNonEmpty(Split(t, ","))

\* HTMLRenderer.renderYields: the texts of the span elements written
HTMLRenderYields(t) == TrimNonEmpty(Split(t, ","))

----------------------------------------------------------------------------
(* goldmark AST nodes.  Every node is a record of one shape: kind, id (the  *)
(* identity of a top-level block: its position in the input document, 0 for *)
(* the nodes below), level (Heading, Emphasis), value (the bytes of a Text  *)
(* segment, the lines of a code block), dest (Link) and children.           *)

Node(kind, id, level, value, dest, children) ==
    [kind |-> kind, id |-> id, level |-> level, value |-> value,
     dest |-> dest, children |-> children]

NilNode == [kind |-> "nil"]

Text(v)           == Node("Text", 0, 0, v, <<>>, <<>>)
Emphasis(l, ch)   == Node("Emphasis", 0, l, <<>>, <<>>, ch)
Link(d, ch)       == Node("Link", 0, 0, <<>>, d, ch)
TextBlock(ch)     == Node("TextBlock", 0, 0, <<>>, <<>>, ch)
ListItem(ch)      == Node("ListItem", 0, 0, <<>>, <<>>, ch)
Heading(l, ch)    == Node("Heading", 0, l, <<>>, <<>>, ch)
Paragraph(ch)     == Node("Paragraph", 0, 0, <<>>, <<>>, ch)
List(items)       == Node("List", 0, 0, <<>>, <<>>, items)
ThematicBreak     == Node("ThematicBreak", 0, 0, <<>>, <<>>, <<>>)
CodeBlock(lines)  == Node("CodeBlock", 0, 0, lines, <<>>, <<>>)
FencedCodeBlock(lines) == Node("FencedCodeBlock", 0, 0, lines, <<>>, <<>>)
Image(d, ch)      == Node("Image", 0, 0, <<>>, d, ch)
RawHTML(segments) == Node("RawHTML", 0, 0, segments, <<>>, <<>>)

HasChildren(n) == n.children # <<>>

\* concatenation of a sequence of strings
RECURSIVE Concat(_)
Concat(parts) == IF parts = <<>> THEN <<>> ELSE Head(parts) \o Concat(Tail(parts))

\* the UTF-8 encoding of a character, one name per byte; an ASCII
\* character is its own byte
Utf8(c) ==
    CASE c = "U+0085" -> <<"xC2", "x85">>
      [] c = "U+00A0" -> <<"xC2", "xA0">>
      [] c = "U+00A1" -> <<"xC2", "xA1">>
      [] c = "U+00AB" -> <<"xC2", "xAB">>
      [] c = "U+00BB" -> <<"xC2", "xBB">>
      [] c = "U+00BD" -> <<"xC2", "xBD">>
      [] c = "U+00C9" -> <<"xC3", "x89">>
      [] c = "U+00E8" -> <<"xC3", "xA8">>
      [] c = "U+00E9" -> <<"xC3", "xA9">>
      [] c = "U+0663" -> <<"xD9", "xA3">>
      [] c = "U+1680" -> <<"xE1", "x9A", "x80">>
      [] c = "U+2000" -> <<"xE2", "x80", "x80">>
      [] c = "U+2001" -> <<"xE2", "x80", "x81">>
      [] c = "U+2002" -> <<"xE2", "x80", "x82">>
      [] c = "U+2003" -> <<"xE2", "x80", "x83">>
      [] c = "U+2004" -> <<"xE2", "x80", "x84">>
      [] c = "U+2005" -> <<"xE2", "x80", "x85">>
      [] c = "U+2006" -> <<"xE2", "x80", "x86">>
      [] c = "U+2007" -> <<"xE2", "x80", "x87">>
      [] c = "U+2008" -> <<"xE2", "x80", "x88">>
      [] c = "U+2009" -> <<"xE2", "x80", "x89">>
      [] c = "U+200A" -> <<"xE2", "x80", "x8A">>
      [] c = "U+2028" -> <<"xE2", "x80", "xA8">>
      [] c = "U+2029" -> <<"xE2", "x80", "xA9">>
      [] c = "U+202F" -> <<"xE2", "x80", "xAF">>
      [] c = "U+205F" -> <<"xE2", "x81", "x9F">>
      [] c = "U+3000" -> <<"xE3", "x80", "x80">>
      [] OTHER -> <<c>>

MultiByteChars ==
    { "U+0085", "U+00A0", "U+00A1", "U+00AB", "U+00BB", "U+00BD", "U+00C9",
      "U+00E8", "U+00E9", "U+0663", "U+1680", "U+2000", "U+2001", "U+2002",
      "U+2003", "U+2004", "U+2005", "U+2006", "U+2007", "U+2008", "U+2009",
      "U+200A", "U+2028", "U+2029", "U+202F", "U+205F", "U+3000" }

\* []byte(s): the bytes of a string
Bytes(s) == Concat([i \in 1..Len(s) |-> Utf8(s[i])])

\* len(s) of a string: the number of its bytes
ByteLen(s) == Len(Bytes(s))

\* string(b): the characters of the bytes; a byte that is no part of the
\* encoding of a character stays in the string as it is
FromBytes(bs) ==
    LET CharsAt(i) == {c \in MultiByteChars :
                      /\ i + Len(Utf8(c)) - 1 <= Len(bs)
                      /\ SubSeq(bs, i, i + Len(Utf8(c)) - 1) = Utf8(c)}
        Inside(i) == \E j \in 1..(i - 1) :
                        \E c \in CharsAt(j) : j + Len(Utf8(c)) > i
        keep == SelectSeq([i \in 1..Len(bs) |-> i], LAMBDA i : ~Inside(i))
    IN  [k \in 1..Len(keep) |->
            IF CharsAt(keep[k]) = {} THEN bs[keep[k]] ELSE CHOOSE c \in CharsAt(keep[k]) : TRUE]

\* roundupsize: the size classes of the allocator
RoundUpSize(n) ==
    Min({c \in {8, 16, 24, 32, 48, 64, 80, 96, 112, 128, 144, 160, 176, 192, 208,
                224, 240, 256, 288, 320, 352, 384, 416, 448, 480, 512} : c >= n})

\* extension.extractText: the Text children, and the text of the children
\* that have children
RECURSIVE extractText(_)
extractText(node) ==
    Concat([i \in 1..Len(node.children) |->
              LET child == node.children[i]
              IN  IF child.kind = "Text" THEN child.value
                  ELSE IF HasChildren(child) THEN extractText(child)
                  ELSE <<>>])

\* extension.renderNode
RECURSIVE renderNode(_)
renderNode(node) ==
    IF node.kind \in {"Heading", "Paragraph"} THEN extractText(node)
    ELSE IF node.kind = "Text" THEN node.value
    ELSE IF node.kind \in {"CodeBlock", "FencedCodeBlock"} THEN node.value
    ELSE IF node.kind = "Image"
    THEN <<"!", "[">>
         \o Concat([i \in 1..Len(node.children) |-> renderNode(node.children[i])])
         \o <<"]", "(">> \o node.dest \o <<")">>
    ELSE IF node.kind = "RawHTML" THEN node.value
    ELSE Concat([i \in 1..Len(node.children) |-> renderNode(node.children[i])])

\* isFullyItalic without the test that the emphasis is the only child
isFullyItalic_AnySibling(para) ==
    /\ HasChildren(para)
    /\ para.children[1].kind = "Emphasis"
    /\ para.children[1].level = 1

\* extension.isFullyItalic
isFullyItalic(para) ==
    /\ HasChildren(para)
    /\ para.children[1].kind = "Emphasis"
    /\ para.children[1].level = 1
    /\ Len(para.children) = 1

\* extension.isFullyBold
isFullyBold(para) ==
    /\ HasChildren(para)
    /\ para.children[1].kind = "Emphasis"
    /\ para.children[1].level = 2
    /\ Len(para.children) = 1

----------------------------------------------------------------------------
(* extension: nodes of the recipe tree, parseIngredient *)

NewAmount(factor, unit) == [kind |-> "Amount", Factor |-> factor, Unit |-> unit]

\* an Ingredient node with its Amount child (NilNode without amount)
NewIngredient(name, link, amount) ==
    [kind |-> "Ingredient", Name |-> name, Link |-> link, Amount |-> amount]

\* the inline nodes parseIngredient walks: the children of the item's first
\* child when that is a Paragraph or a TextBlock, the item's children otherwise
ItemInlines(item) ==
    IF ~HasChildren(item) THEN <<>>
    ELSE IF item.children[1].kind \in {"Paragraph", "TextBlock"}
         THEN item.children[1].children
         ELSE item.children

\* one turn of the loop "collect the rest of the text/nodes for the name"
NameStep(st, child) ==
    IF child.kind = "Link"
    THEN [name      |-> IF st.name = <<>> THEN extractText(child) ELSE st.name,
          nameParts |-> IF st.name = <<>> THEN st.nameParts
                        ELSE Append(st.nameParts, extractText(child)),
          link      |-> child.dest]
    ELSE IF child.kind = "Text"
    THEN [st EXCEPT !.nameParts = Append(@, child.value)]
    ELSE IF extractText(child) # <<>>
    THEN [st EXCEPT !.nameParts = Append(@, extractText(child))]
    ELSE st

RECURSIVE NameLoop(_, _)
NameLoop(st, rest) ==
    IF rest = <<>> THEN st ELSE NameLoop(NameStep(st, Head(rest)), Tail(rest))

\* extension.parseIngredient: NilNode when the name is empty
parseIngredient(item) ==
    LET inl       == ItemInlines(item)
        hasAmount == inl # <<>> /\ inl[1].kind = "Emphasis" /\ inl[1].level = 1
        amount    == IF hasAmount
                     THEN LET a == parseAmount(extractText(inl[1]))
                          IN  NewAmount(a.factor, a.unit)
                     ELSE NilNode
        rest      == IF hasAmount THEN Tail(inl) ELSE inl
        st        == NameLoop([name |-> <<>>, nameParts |-> <<>>, link |-> Nil], rest)
        name      == IF st.name = <<>> /\ st.nameParts # <<>>
                     THEN Concat(st.nameParts) ELSE st.name
    IN  IF name = <<>> THEN NilNode
        ELSE NewIngredient(TrimSpace(name), st.link, amount)

\* extension.parseIngredients: the ingredients of the ListItem children
RECURSIVE parseIngredients(_)
parseIngredients(items) ==
    IF items = <<>> THEN <<>>
    ELSE LET ing == IF Head(items).kind = "ListItem"
                    THEN parseIngredient(Head(items)) ELSE NilNode
         IN  (IF ing # NilNode THEN <<ing>> ELSE <<>>) \o parseIngredients(Tail(items))

----------------------------------------------------------------------------
(* extension.recipeParser.Transform: one action per turn of the loop over   *)
(* the document's children, one for the code after the loop                 *)

ParagraphBreak == <<"\n", "\n">>

\* the state of the locals before the loop
ParserStart ==
    /\ pos = 1
    /\ title = <<>>
    /\ descriptionParts = <<>>
    /\ tagsNode = NilNode
    /\ yieldsNode = NilNode
    /\ firstDividerFound = FALSE
    /\ secondDividerFound = FALSE
    /\ currentIngredientList = NilNode
    /\ ingredientGroupStack = <<>>
    /\ topLevelGroups = <<>>
    /\ groups = <<>>
    /\ instructionParts = <<>>
    /\ handled = <<>>

\* the words of a string and of a slice; the pointer of a string stands for
\* the bytes behind it (nil: none), the pointer of a slice is the number of
\* its array on the heap (nil: 0)
StringWords == <<"ptr", "len">>

SliceWords == <<"ptr", "len", "cap">>

ZeroString == [ptr |-> <<>>, len |-> 0]

ZeroSlice == [ptr |-> 0, len |-> 0, cap |-> 0]

\* jsonRecipe{}: the zero value of the struct of the JSONRenderer of
\* pkg/goldmark-recipemd (src/unnamed/part_002)
EmptyJSONRecipe ==
    [Title |-> ZeroString, Description |-> ZeroString, Tags |-> ZeroSlice,
     Yields |-> ZeroSlice, Ingredients |-> ZeroSlice, Groups |-> ZeroSlice,
     Instructions |-> ZeroString]

\* NewJSONRenderer(): &JSONRenderer{}
NewJSONRenderer == [recipe |-> EmptyJSONRecipe, source |-> ZeroSlice]

\* no render is running
RenderStart ==
    /\ renderer = "none"
    /\ jsonRenderer = NewJSONRenderer
    /\ heap = <<>>
    /\ walks = <<>>

\* one statement of a function of the JSONRenderer that reads or writes the
\* fields of the renderer
JSONStmt(op, field, val) == [op |-> op, field |-> field, val |-> val]

\* `r.recipe.F = append(r.recipe.F, v)`
JSONAppend(field, v) == <<JSONStmt("append", field, v)>>

\* the appends of the values, in order
JSONAppends(field, vs) == [k \in 1..Len(vs) |-> JSONStmt("append", field, vs[k])]

(* The renderer in memory.  A string is two words (pointer, length), a
   slice three (pointer, length, capacity), and a value of several words is
   read and written word by word.  The renders are goroutines that nothing
   synchronises: by the memory model of Go a read of a word then observes
   the last write of its own goroutine to the word, or any write to it that
   another goroutine has made.  A render therefore keeps a log of its
   writes, and a read chooses among the values the logs allow. *)

\* the words of the struct jsonRecipe in the order of their addresses
RecipeWords ==
    << <<"Title", "ptr">>, <<"Title", "len">>,
       <<"Description", "ptr">>, <<"Description", "len">>,
       <<"Tags", "ptr">>, <<"Tags", "len">>, <<"Tags", "cap">>,
       <<"Yields", "ptr">>, <<"Yields", "len">>, <<"Yields", "cap">>,
       <<"Ingredients", "ptr">>, <<"Ingredients", "len">>, <<"Ingredients", "cap">>,
       <<"Groups", "ptr">>, <<"Groups", "len">>, <<"Groups", "cap">>,
       <<"Instructions", "ptr">>, <<"Instructions", "len">> >>

\* the words of an element of the slice: a string, a jsonIngredient, a
\* jsonGroup
ElemWords(field) ==
    CASE field \in {"Tags", "Yields"} -> << <<"ptr">>, <<"len">> >>
      [] field = "Ingredients" ->
             << <<"Amount", "ptr">>, <<"Amount", "len">>,
                <<"Name", "ptr">>, <<"Name", "len">> >>
      [] field = "Groups" ->
             << <<"Name", "ptr">>, <<"Name", "len">>,
                <<"Ingredients", "ptr">>, <<"Ingredients", "len">>,
                <<"Ingredients", "cap">> >>

\* unsafe.Sizeof of an element
ElemSize(field) ==
    CASE field \in {"Tags", "Yields"} -> 16
      [] field = "Ingredients" -> 32
      [] field = "Groups" -> 40

\* the zero value of an element
ZeroElem(field) ==
    CASE field \in {"Tags", "Yields"} -> ZeroString
      [] field = "Ingredients" -> [Amount |-> ZeroString, Name |-> ZeroString]
      [] field = "Groups" -> [Name |-> ZeroString, Ingredients |-> ZeroSlice]

GetWord(s, path) == IF Len(path) = 1 THEN s[path[1]] ELSE s[path[1]][path[2]]

\* the words of a string the program has built (string(b), a Builder, a
\* Buffer): the bytes behind the pointer are those of the string, and the
\* empty string has no pointer
JSONString(s) == [ptr |-> s, len |-> ByteLen(s)]

\* the characters of the string of the two words
JSONChars(g) == FromBytes(SubSeq(Bytes(g.ptr), 1, g.len))

\* the white space of the ASCII loop of strings.TrimSpace
AsciiSpace == {" ", "\t", "\n", VerticalTab, "\f", "\r"}

\* strings.TrimSpace on the words of a string.  The result s[start:stop] is
\* a part of s: its pointer is that of the first character kept, and the
\* bytes behind it are those of s to its end.  The empty result s[n:n] of
\* the ASCII loop keeps the pointer of s; the empty result of TrimLeftFunc,
\* for a string with white space beyond ASCII, is the constant "".
JSONTrimmed(g, s) ==
    LET kept  == {k \in DOMAIN s : ~IsSpace(s[k])}
        start == Min(kept)
        stop  == Max(kept)
    IN  IF kept # {}
        THEN [ptr |-> SubSeq(g.ptr, start, Len(g.ptr)),
              len |-> ByteLen(SubSeq(s, start, stop))]
        ELSE IF \A k \in DOMAIN s : s[k] \in AsciiSpace THEN [ptr |-> g.ptr, len |-> 0]
        ELSE ZeroString

JSONTrimSpace(g) == JSONTrimmed(g, JSONChars(g))

\* strings.Split(s, sep) on the words of a string: every piece is a part of
\* s, with the bytes of s to its end behind its pointer; the empty piece
\* after the last separator keeps the pointer of the piece before it
JSONPieces(g, s, sep) ==
    LET cuts   == {j \in DOMAIN s : s[j] = sep}
        \* the characters before piece k, and the character after it
        off(k) == IF k = 1 THEN 0
                  ELSE CHOOSE j \in cuts : Cardinality({m \in cuts : m < j}) = k - 2
        end(k) == IF k = Cardinality(cuts) + 1 THEN Len(s) + 1
                  ELSE CHOOSE j \in cuts : Cardinality({m \in cuts : m < j}) = k - 1
        at(k)  == IF k > 1 /\ off(k) = Len(s) THEN off(k - 1) ELSE off(k)
    IN  [k \in 1..(Cardinality(cuts) + 1) |->
            [ptr |-> SubSeq(g.ptr, at(k) + 1, Len(g.ptr)),
             len |-> ByteLen(SubSeq(s, off(k) + 1, end(k) - 1))]]

JSONSplit(g, sep) == JSONPieces(g, JSONChars(g), sep)

\* strings.Join(parts, sep) on the words of strings: of one part the part
\* itself, of several a string built for them
JSONJoin(parts, sep) ==
    IF parts = <<>> THEN ZeroString
    ELSE IF Len(parts) = 1 THEN parts[1]
    ELSE JSONString(Join([k \in 1..Len(parts) |-> JSONChars(parts[k])], sep))

\* the loop of renderTags / renderYields on the text of the node: the
\* pieces between the commas, trimmed, that are not empty
JSONNonEmpty(pieces) ==
    SelectSeq([k \in 1..Len(pieces) |-> JSONTrimSpace(pieces[k])], LAMBDA g : g.len # 0)

JSONTrimmedPieces(t) == JSONNonEmpty(JSONSplit(JSONString(t), ","))

\* runtime.growslice: the capacity of the new array
GrowCap(newLen, oldCap, size) ==
    LET newcap == IF newLen > 2 * oldCap THEN newLen ELSE 2 * oldCap
    IN  RoundUpSize(newcap * size) \div size

\* the capacity of a slice that n appends have built from nil
CapNext(n, c, size) == IF n > c THEN GrowCap(n, c, size) ELSE c

RECURSIVE CapAfter(_, _)
CapAfter(n, size) == IF n = 0 THEN 0 ELSE CapNext(n, CapAfter(n - 1, size), size)

\* an array of a slice on the heap
JSONArray(field, capacity, elems) ==
    [field |-> field, cap |-> capacity,
     elems |-> elems \o [j \in 1..(capacity - Len(elems)) |-> ZeroElem(field)]]

\* the heap after the function has built the value it appends: the
\* ingredients of a jsonGroup are in an array of their own
JSONElemHeap(field, v, h) ==
    IF field = "Groups" /\ v.Ingredients # <<>>
    THEN Append(h, JSONArray("Ingredients",
                             CapAfter(Len(v.Ingredients), ElemSize("Ingredients")),
                             [i \in 1..Len(v.Ingredients) |->
                                 [Amount |-> v.Ingredients[i].Amount,
                                  Name   |-> v.Ingredients[i].Name]]))
    ELSE h

\* the words of the value the function appends
JSONElem(field, v, h) ==
    CASE field \in {"Tags", "Yields"} -> v
      [] field = "Ingredients" -> [Amount |-> v.Amount, Name |-> v.Name]
      [] field = "Groups" ->
             [Name |-> v.Name,
              Ingredients |->
                  IF v.Ingredients = <<>> THEN ZeroSlice
                  ELSE [ptr |-> Len(h) + 1, len |-> Len(v.Ingredients),
                        cap |-> CapAfter(Len(v.Ingredients), ElemSize("Ingredients"))]]

\* the address of a word: the array (0: the renderer), the element, the
\* path of the word in the struct
RecipeAddr(field, word) == <<0, 0, <<field, word>>>>

\* the log after the stores, a sequence of <<address, value>>
LogStores(log, stores) ==
    LET addrs   == {stores[k][1] : k \in DOMAIN stores}
        of(a)   == {k \in DOMAIN stores : stores[k][1] = a}
    IN  [a \in DOMAIN log \cup addrs |->
            IF a \in addrs
            THEN [last |-> stores[Max(of(a))][2],
                  all  |-> (IF a \in DOMAIN log THEN log[a].all ELSE {})
                           \cup {stores[k][2] : k \in of(a)}]
            ELSE log[a]]

\* the stores of the allocation of array b: every word is zeroed, then
\* written
ArrayStores(b, array) ==
    Concat([i \in 1..array.cap |->
              Concat([wd \in 1..Len(ElemWords(array.field)) |->
                        << <<<<b, i, ElemWords(array.field)[wd]>>,
                             GetWord(ZeroElem(array.field), ElemWords(array.field)[wd])>>,
                           <<<<b, i, ElemWords(array.field)[wd]>>,
                             GetWord(array.elems[i], ElemWords(array.field)[wd])>> >>])])

\* the stores of element i of array b
ElemStores(b, i, field, elem) ==
    [wd \in 1..Len(ElemWords(field)) |->
        <<<<b, i, ElemWords(field)[wd]>>, GetWord(elem, ElemWords(field)[wd])>>]

\* the word at the address when the renders started
StartWord(mem0, a) ==
    IF a[1] = 0
    THEN {IF a[3][1] = "source" THEN mem0.r.source[a[3][2]] ELSE GetWord(mem0.r.recipe, a[3])}
    ELSE IF a[1] <= Len(mem0.h) THEN {GetWord(mem0.h[a[1]].elems[a[2]], a[3])}
    ELSE {}

\* the values render i can read at the address: its own last write (the
\* word as it was at the start when it has written none), or any write of
\* another render
Readable(mem0, logs, i, a) ==
    (IF a \in DOMAIN logs[i] THEN {logs[i][a].last} ELSE StartWord(mem0, a))
    \cup UNION {logs[j][a].all : j \in {m \in DOMAIN logs : m # i /\ a \in DOMAIN logs[m]}}

\* the sequences whose element k is in sets[k]
SeqProduct(sets) ==
    {s \in [1..Len(sets) -> UNION {sets[k] : k \in DOMAIN sets}] :
        \A k \in DOMAIN sets : s[k] \in sets[k]}

\* the strings that can be read at the words ptr and len under the path
StringReads(mem0, logs, i, b, e, prefix) ==
    {[ptr |-> p, len |-> l] :
        p \in Readable(mem0, logs, i, <<b, e, prefix \o <<"ptr">> >>),
        l \in Readable(mem0, logs, i, <<b, e, prefix \o <<"len">> >>)}

\* the slice headers that can be read at the words under the path
SliceReads(mem0, logs, i, b, e, prefix) ==
    {[ptr |-> p, len |-> l, cap |-> c] :
        p \in Readable(mem0, logs, i, <<b, e, prefix \o <<"ptr">> >>),
        l \in Readable(mem0, logs, i, <<b, e, prefix \o <<"len">> >>),
        c \in Readable(mem0, logs, i, <<b, e, prefix \o <<"cap">> >>)}

\* the elements that can be read at element e of array b
ElemReads(mem0, logs, i, field, b, e) ==
    CASE field \in {"Tags", "Yields"} -> StringReads(mem0, logs, i, b, e, <<>>)
      [] field = "Ingredients" ->
             {[Amount |-> a, Name |-> n] :
                 a \in StringReads(mem0, logs, i, b, e, <<"Amount">>),
                 n \in StringReads(mem0, logs, i, b, e, <<"Name">>)}
      [] field = "Groups" ->
             {[Name |-> n, Ingredients |-> s] :
                 n \in StringReads(mem0, logs, i, b, e, <<"Name">>),
                 s \in SliceReads(mem0, logs, i, b, e, <<"Ingredients">>)}

\* the sequences of the first n elements that can be read in array b
ElemChoices(mem0, logs, i, field, b, n) ==
    SeqProduct([e \in 1..n |-> ElemReads(mem0, logs, i, field, b, e)])

\* what one statement leaves: the renderer, the heap, the log of the
\* render, what the render has written.  err: the statement goes through a
\* nil pointer ("panic": the program ends with a runtime error) or leaves
\* an array ("memory": it reads or damages memory that is not the slice's,
\* and nothing is known of the run after it)
JSONOutcome(r, h, log, w) == [r |-> r, h |-> h, log |-> log, w |-> w, err |-> ""]

JSONError(r, h, log, e) ==
    [r |-> r, h |-> h, log |-> log, w |-> <<[error |-> e]>>, err |-> e]

\* r.source = source
JSONSourceOutcomes(r, h, log, st) ==
    { JSONOutcome([r EXCEPT !.source = [ptr |-> st.val, len |-> st.val, cap |-> st.val]],
                  h,
                  LogStores(log, [k \in 1..3 |->
                                    <<<<0, 0, <<"source", SliceWords[k]>> >>, st.val>>]),
                  <<>>) }

\* r.recipe = jsonRecipe{}
JSONResetOutcomes(r, h, log, st) ==
    { JSONOutcome([r EXCEPT !.recipe = EmptyJSONRecipe],
                  h,
                  LogStores(log, [k \in 1..Len(RecipeWords) |->
                                    <<<<0, 0, RecipeWords[k]>>,
                                      GetWord(EmptyJSONRecipe, RecipeWords[k])>>]),
                  <<>>) }

\* r.recipe.F = s of a string
JSONSetOutcomes(r, h, log, st) ==
    { JSONOutcome([r EXCEPT !.recipe[st.field] = st.val],
                  h,
                  LogStores(log, [k \in 1..2 |->
                                    <<RecipeAddr(st.field, StringWords[k]),
                                      st.val[StringWords[k]]>>]),
                  <<>>) }

\* append with growslice: the old elements as copied, in a new array
JSONAppendGrown(r, h, log, st, hdr, copied) ==
    LET f      == st.field
        h1     == JSONElemHeap(f, st.val, h)
        newcap == GrowCap(hdr.len + 1, hdr.cap, ElemSize(f))
        array  == JSONArray(f, newcap, Append(copied, JSONElem(f, st.val, h)))
        b      == Len(h1) + 1
    IN  JSONOutcome([r EXCEPT !.recipe[f] = [ptr |-> b, len |-> hdr.len + 1, cap |-> newcap]],
                    Append(h1, array),
                    LogStores(log,
                        (IF Len(h1) > Len(h) THEN ArrayStores(Len(h1), h1[Len(h1)]) ELSE <<>>)
                        \o ArrayStores(b, array)
                        \o << <<RecipeAddr(f, "cap"), newcap>>,
                              <<RecipeAddr(f, "ptr"), b>>,
                              <<RecipeAddr(f, "len"), hdr.len + 1>> >>),
                    <<>>)

\* append within the capacity: the length, and the element in the array
JSONAppendInPlace(r, h, log, st, hdr) ==
    LET f  == st.field
        h1 == JSONElemHeap(f, st.val, h)
    IN  JSONOutcome([r EXCEPT !.recipe[f].len = hdr.len + 1],
                    [h1 EXCEPT ![hdr.ptr].elems[hdr.len + 1] = JSONElem(f, st.val, h)],
                    LogStores(log,
                        (IF Len(h1) > Len(h) THEN ArrayStores(Len(h1), h1[Len(h1)]) ELSE <<>>)
                        \o << <<RecipeAddr(f, "len"), hdr.len + 1>> >>
                        \o ElemStores(hdr.ptr, hdr.len + 1, f, JSONElem(f, st.val, h))),
                    <<>>)

\* append on the slice header the render has read
JSONAppendWith(mem0, r, h, logs, i, st, hdr) ==
    IF hdr.len + 1 > hdr.cap
    THEN IF hdr.len > 0 /\ hdr.ptr = 0 THEN {JSONError(r, h, logs[i], "panic")}
         ELSE IF hdr.len > 0 /\ hdr.len > h[hdr.ptr].cap
         THEN {JSONError(r, h, logs[i], "memory")}
         ELSE {JSONAppendGrown(r, h, logs[i], st, hdr, copied) :
                  copied \in ElemChoices(mem0, logs, i, st.field, hdr.ptr, hdr.len)}
    ELSE IF hdr.ptr = 0 THEN {JSONError(r, h, logs[i], "panic")}
    ELSE IF hdr.len + 1 > h[hdr.ptr].cap THEN {JSONError(r, h, logs[i], "memory")}
    ELSE {JSONAppendInPlace(r, h, logs[i], st, hdr)}

\* r.recipe.F = append(r.recipe.F, v)
JSONAppendOutcomes(mem0, r, h, logs, i, st) ==
    UNION {JSONAppendWith(mem0, r, h, logs, i, st, hdr) :
              hdr \in SliceReads(mem0, logs, i, 0, 0, <<st.field>>)}

\* what the encoder makes of a value: the fault or the value
JSONValue(v) == [err |-> "", v |-> v]

JSONFault(e) == [err |-> e, v |-> <<>>]

\* the first fault of the values, in their order
FirstErr(vals) ==
    LET bad == {k \in DOMAIN vals : vals[k].err # ""}
    IN  IF bad = {} THEN "" ELSE vals[Min(bad)].err

\* the string of the two words
JSONStringValue(s) ==
    IF s.len = 0 THEN JSONValue(<<>>)
    ELSE IF s.ptr = <<>> THEN JSONFault("panic")
    ELSE IF s.len > ByteLen(s.ptr) THEN JSONFault("memory")
    ELSE JSONValue(FromBytes(SubSeq(Bytes(s.ptr), 1, s.len)))

JSONIngredientValue(e) ==
    LET a == JSONStringValue(e.Amount)
        n == JSONStringValue(e.Name)
    IN  IF FirstErr(<<a, n>>) # "" THEN JSONFault(FirstErr(<<a, n>>))
        ELSE JSONValue([Amount |-> a.v, Name |-> n.v])

\* the values of the sequence, or its first fault
JSONValues(vals) ==
    IF FirstErr(vals) # "" THEN JSONFault(FirstErr(vals))
    ELSE JSONValue([k \in DOMAIN vals |-> vals[k].v])

\* what the encoder can make of the elements of a slice of strings or of
\* jsonIngredients with the header hdr
JSONFlatSlice(mem0, h, logs, i, field, hdr) ==
    IF hdr.len = 0 THEN {JSONValue(<<>>)}
    ELSE IF hdr.ptr = 0 THEN {JSONFault("panic")}
    ELSE IF hdr.len > h[hdr.ptr].cap THEN {JSONFault("memory")}
    ELSE {JSONValues([k \in DOMAIN es |->
                         IF field = "Ingredients" THEN JSONIngredientValue(es[k])
                         ELSE JSONStringValue(es[k])]) :
             es \in ElemChoices(mem0, logs, i, field, hdr.ptr, hdr.len)}

\* what the encoder can make of a jsonGroup that has been read
JSONGroupValues(mem0, h, logs, i, e) ==
    {IF FirstErr(<<JSONStringValue(e.Name), ings>>) # ""
     THEN JSONFault(FirstErr(<<JSONStringValue(e.Name), ings>>))
     ELSE JSONValue([Name |-> JSONStringValue(e.Name).v, Ingredients |-> ings.v]) :
        ings \in JSONFlatSlice(mem0, h, logs, i, "Ingredients", e.Ingredients)}

\* what the encoder can make of r.recipe.Groups with the header hdr
JSONGroupSlice(mem0, h, logs, i, hdr) ==
    IF hdr.len = 0 THEN {JSONValue(<<>>)}
    ELSE IF hdr.ptr = 0 THEN {JSONFault("panic")}
    ELSE IF hdr.len > h[hdr.ptr].cap THEN {JSONFault("memory")}
    ELSE UNION {{JSONValues(gs) :
                    gs \in SeqProduct([k \in DOMAIN es |->
                                         JSONGroupValues(mem0, h, logs, i, es[k])])} :
                  es \in ElemChoices(mem0, logs, i, "Groups", hdr.ptr, hdr.len)}

\* what the encoder can make of the field of the struct
JSONFieldValues(mem0, h, logs, i, field) ==
    CASE field \in {"Title", "Description", "Instructions"} ->
             {JSONStringValue(s) : s \in StringReads(mem0, logs, i, 0, 0, <<field>>)}
      [] field = "Groups" ->
             UNION {JSONGroupSlice(mem0, h, logs, i, hdr) :
                      hdr \in SliceReads(mem0, logs, i, 0, 0, <<field>>)}
      [] OTHER ->
             UNION {JSONFlatSlice(mem0, h, logs, i, field, hdr) :
                      hdr \in SliceReads(mem0, logs, i, 0, 0, <<field>>)}

\* the jsonRecipe written, or the fault
JSONEncoded(r, h, log, t, d, tg, y, ing, g, ins) ==
    IF FirstErr(<<t, d, tg, y, ing, g, ins>>) # ""
    THEN JSONError(r, h, log, FirstErr(<<t, d, tg, y, ing, g, ins>>))
    ELSE JSONOutcome(r, h, log,
                     <<[Title |-> t.v, Description |-> d.v, Tags |-> tg.v, Yields |-> y.v,
                        Ingredients |-> ing.v, Groups |-> g.v, Instructions |-> ins.v]>>)

\* json.MarshalIndent(r.recipe, ...) and the writes to the writer: the copy
\* of the struct that is handed to the encoder, and the elements of its
\* slices
JSONMarshalOutcomes(mem0, r, h, logs, i, st) ==
    {JSONEncoded(r, h, logs[i], t, d, tg, y, ing, g, ins) :
        t   \in JSONFieldValues(mem0, h, logs, i, "Title"),
        d   \in JSONFieldValues(mem0, h, logs, i, "Description"),
        tg  \in JSONFieldValues(mem0, h, logs, i, "Tags"),
        y   \in JSONFieldValues(mem0, h, logs, i, "Yields"),
        ing \in JSONFieldValues(mem0, h, logs, i, "Ingredients"),
        g   \in JSONFieldValues(mem0, h, logs, i, "Groups"),
        ins \in JSONFieldValues(mem0, h, logs, i, "Instructions")}

\* what the statement of render i can leave; mem0 the memory when the
\* renders started, logs the logs of the renders
JSONOutcomes(mem0, r, h, logs, i, st) ==
    CASE st.op = "source"  -> JSONSourceOutcomes(r, h, logs[i], st)
      [] st.op = "reset"   -> JSONResetOutcomes(r, h, logs[i], st)
      [] st.op = "set"     -> JSONSetOutcomes(r, h, logs[i], st)
      [] st.op = "append"  -> JSONAppendOutcomes(mem0, r, h, logs, i, st)
      [] st.op = "marshal" -> JSONMarshalOutcomes(mem0, r, h, logs, i, st)

\* the statements one after the other in one goroutine: a call, or a render
\* that nothing else runs next to
RECURSIVE JSONRun(_, _, _, _)
JSONRunRest(res, w, stmts) ==
    IF res.err # "" THEN [r |-> res.r, h |-> res.h, w |-> w \o res.w]
    ELSE JSONRun(res.r, res.h, w \o res.w, stmts)

JSONRun(r, h, w, stmts) ==
    IF stmts = <<>> THEN [r |-> r, h |-> h, w |-> w]
    ELSE JSONRunRest(CHOOSE res \in JSONOutcomes([r |-> r, h |-> h], r, h, <<<<>>>>, 1,
                                                 Head(stmts)) : TRUE,
                     w, Tail(stmts))

\* the strings of the slice r.recipe.F
JSONSliceValue(r, h, field) ==
    [i \in 1..r.recipe[field].len |-> JSONStringValue(h[r.recipe[field].ptr].elems[i]).v]

InLoop(kinds) ==
    /\ pc = "parse"
    /\ pos <= Len(doc)
    /\ doc[pos].kind \in kinds

\* child = next, and the record of the branch that ran
Advance(effect) ==
    /\ pos' = pos + 1
    /\ handled' = Append(handled, [first  |-> firstDividerFound,
                                   second |-> secondDividerFound,
                                   effect |-> effect])

NewIngredientGroup(groupTitle, headingLevel) ==
    [kind |-> "IngredientGroup", Title |-> groupTitle, Level |-> headingLevel,
     children |-> <<>>]

GroupRef(g) == [kind |-> "IngredientGroup", ref |-> g]

\* the pop loop with the test `group.Level >= parent.Level`: a heading of
\* the level of the open group would become its child
RECURSIVE PopStack_Geq(_, _, _)
PopStack_Geq(gs, stack, level) ==
    IF stack = <<>> THEN <<>>
    ELSE IF level >= gs[stack[Len(stack)]].Level THEN stack
    ELSE PopStack_Geq(gs, SubSeq(stack, 1, Len(stack) - 1), level)

\* the pop loop of addIngredientGroup: the stack that is left when the loop
\* finds a parent of lower level, or runs empty
RECURSIVE PopStack(_, _, _)
PopStack(gs, stack, level) ==
    IF stack = <<>> THEN <<>>
    ELSE IF level > gs[stack[Len(stack)]].Level THEN stack
    ELSE PopStack(gs, SubSeq(stack, 1, Len(stack) - 1), level)

\* extension.recipeParser.addIngredientGroup
addIngredientGroup(group) ==
    LET g     == Len(groups) + 1
        stack == PopStack(groups, ingredientGroupStack, group.Level)
    IN  /\ currentIngredientList' = NilNode
        /\ IF stack # <<>>
           THEN /\ groups' = Append([groups EXCEPT ![stack[Len(stack)]].children =
                                         Append(@, GroupRef(g))], group)
                /\ UNCHANGED topLevelGroups
           ELSE /\ groups' = Append(groups, group)
                /\ topLevelGroups' = Append(topLevelGroups, g)
        /\ ingredientGroupStack' = Append(stack, g)

\* case *gast.Heading
ParserHeading ==
    /\ InLoop({"Heading"})
    /\ LET n == doc[pos]
       IN  IF n.level = 1 /\ title = <<>>
           THEN /\ title' = extractText(n)
                /\ Advance("title")
                /\ UNCHANGED <<currentIngredientList, ingredientGroupStack,
                               topLevelGroups, groups, instructionParts>>
           ELSE IF firstDividerFound /\ ~secondDividerFound
           THEN /\ addIngredientGroup(NewIngredientGroup(extractText(n), n.level))
                /\ Advance("group")
                /\ UNCHANGED <<title, instructionParts>>
           ELSE IF secondDividerFound
           THEN /\ instructionParts' = Append(instructionParts, renderNode(n))
                /\ Advance("instructions")
                /\ UNCHANGED <<title, currentIngredientList, ingredientGroupStack,
                               topLevelGroups, groups>>
           ELSE /\ Advance("skip")
                /\ UNCHANGED <<title, currentIngredientList, ingredientGroupStack,
                               topLevelGroups, groups, instructionParts>>
    /\ UNCHANGED <<pc, textVars, doc, pipeline, renderVars, descriptionParts, tagsNode, yieldsNode,
                   firstDividerFound, secondDividerFound, root, recipe>>

NewRecipeTags(tags) == [kind |-> "RecipeTags", Tags |-> tags]

NewRecipeYields(yields) == [kind |-> "RecipeYields", children |-> yields]

\* case *gast.Paragraph
ParserParagraph ==
    /\ InLoop({"Paragraph"})
    /\ LET n == doc[pos]
       IN  IF title = <<>>
           THEN /\ Advance("skip")
                /\ UNCHANGED <<tagsNode, yieldsNode, descriptionParts, instructionParts>>
           ELSE IF ~firstDividerFound
           THEN IF isFullyItalic(n)
                THEN /\ tagsNode' = NewRecipeTags(splitTags(extractText(n)))
                     /\ Advance("tags")
                     /\ UNCHANGED <<yieldsNode, descriptionParts, instructionParts>>
                ELSE IF isFullyBold(n)
                THEN /\ yieldsNode' = NewRecipeYields(parseYields(extractText(n)))
                     /\ Advance("yields")
                     /\ UNCHANGED <<tagsNode, descriptionParts, instructionParts>>
                ELSE /\ descriptionParts' = Append(descriptionParts, renderNode(n))
                     /\ Advance("description")
                     /\ UNCHANGED <<tagsNode, yieldsNode, instructionParts>>
           ELSE IF secondDividerFound
           THEN /\ instructionParts' = Append(instructionParts, renderNode(n))
                /\ Advance("instructions")
                /\ UNCHANGED <<tagsNode, yieldsNode, descriptionParts>>
           ELSE /\ Advance("skip")
                /\ UNCHANGED <<tagsNode, yieldsNode, descriptionParts, instructionParts>>
    /\ UNCHANGED <<pc, textVars, doc, pipeline, renderVars, title, firstDividerFound,
                   secondDividerFound, currentIngredientList, ingredientGroupStack,
                   topLevelGroups, groups, root, recipe>>

NewIngredientList(ingredients) == [kind |-> "IngredientList", children |-> ingredients]

\* case *gast.List
ParserList ==
    /\ InLoop({"List"})
    /\ LET n == doc[pos]
           ingredients == parseIngredients(n.children)
       IN  IF firstDividerFound /\ ~secondDividerFound
           THEN /\ IF Len(ingredientGroupStack) > 0
                   THEN /\ groups' = [groups EXCEPT
                              ![ingredientGroupStack[Len(ingredientGroupStack)]].children =
                                  @ \o ingredients]
                        /\ UNCHANGED currentIngredientList
                   ELSE /\ currentIngredientList' =
                              IF currentIngredientList = NilNode
                              THEN NewIngredientList(ingredients)
                              ELSE NewIngredientList(currentIngredientList.children
                                                       \o ingredients)
                        /\ UNCHANGED groups
                /\ Advance("ingredients")
                /\ UNCHANGED instructionParts
           ELSE IF secondDividerFound
           THEN /\ instructionParts' = Append(instructionParts, renderNode(n))
                /\ Advance("instructions")
                /\ UNCHANGED <<currentIngredientList, groups>>
           ELSE /\ Advance("skip")
                /\ UNCHANGED <<currentIngredientList, groups, instructionParts>>
    /\ UNCHANGED <<pc, textVars, doc, pipeline, renderVars, title, descriptionParts, tagsNode,
                   yieldsNode, firstDividerFound, secondDividerFound,
                   ingredientGroupStack, topLevelGroups, root, recipe>>

\* case *gast.ThematicBreak
ParserThematicBreak ==
    /\ InLoop({"ThematicBreak"})
    /\ IF ~firstDividerFound
       THEN /\ firstDividerFound' = TRUE
            /\ UNCHANGED secondDividerFound
            /\ Advance("divider")
       ELSE IF ~secondDividerFound
       THEN /\ secondDividerFound' = TRUE
            /\ UNCHANGED firstDividerFound
            /\ Advance("divider")
       ELSE /\ UNCHANGED <<firstDividerFound, secondDividerFound>>
            /\ Advance("skip")
    /\ UNCHANGED <<pc, textVars, doc, pipeline, renderVars, title, descriptionParts, tagsNode,
                   yieldsNode, currentIngredientList, ingredientGroupStack,
                   topLevelGroups, groups, instructionParts, root, recipe>>

\* default: the other block nodes
ParserOther ==
    /\ pc = "parse"
    /\ pos <= Len(doc)
    /\ doc[pos].kind \notin {"Heading", "Paragraph", "List", "ThematicBreak"}
    /\ LET n == doc[pos]
       IN  IF secondDividerFound
           THEN /\ instructionParts' = Append(instructionParts, renderNode(n))
                /\ Advance("instructions")
                /\ UNCHANGED descriptionParts
           ELSE IF ~firstDividerFound /\ title # <<>>
           THEN /\ descriptionParts' = Append(descriptionParts, renderNode(n))
                /\ Advance("description")
                /\ UNCHANGED instructionParts
           ELSE /\ Advance("skip")
                /\ UNCHANGED <<descriptionParts, instructionParts>>
    /\ UNCHANGED <<pc, textVars, doc, pipeline, renderVars, title, tagsNode, yieldsNode,
                   firstDividerFound, secondDividerFound, currentIngredientList,
                   ingredientGroupStack, topLevelGroups, groups, root, recipe>>

\* the tree below the group g of the arena
RECURSIVE GroupTree(_, _)
GroupTree(gs, g) ==
    [kind     |-> "IngredientGroup",
     Title    |-> gs[g].Title,
     Level    |-> gs[g].Level,
     children |-> [i \in 1..Len(gs[g].children) |->
                     LET c == gs[g].children[i]
                     IN  IF "ref" \in DOMAIN c THEN GroupTree(gs, c.ref) ELSE c]]

NewRecipeMetadata(t, description, children) ==
    [kind |-> "RecipeMetadata", Title |-> t, Description |-> description,
     children |-> children]

NewInstructions(content) == [kind |-> "Instructions", Content |-> content]

\* "Build the recipe structure": the Recipe node that replaces the children
\* of the document
BuildRecipeNode ==
    LET description == TrimSpace(Join(descriptionParts, ParagraphBreak))
        metadata == NewRecipeMetadata(title, description,
                        (IF tagsNode # NilNode THEN <<tagsNode>> ELSE <<>>)
                        \o (IF yieldsNode # NilNode THEN <<yieldsNode>> ELSE <<>>))
        ungrouped == IF currentIngredientList # NilNode
                        /\ currentIngredientList.children # <<>>
                     THEN <<currentIngredientList>> ELSE <<>>
        groupNodes == [i \in 1..Len(topLevelGroups) |-> GroupTree(groups, topLevelGroups[i])]
        instructions == IF Len(instructionParts) > 0
                        THEN <<NewInstructions(
                                 TrimSpace(Join(instructionParts, ParagraphBreak)))>>
                        ELSE <<>>
    IN  [kind |-> "Recipe",
         children |-> <<metadata>> \o ungrouped \o groupNodes \o instructions]

\* node.RemoveChildren(node): the document keeps no child
RemoveChildren(children) == SubSeq(children, 1, 0)

ParserFinish ==
    /\ pc = "parse"
    /\ pos > Len(doc)
    /\ root' = Append(RemoveChildren(doc), BuildRecipeNode)
    /\ pc' = "parsed"
    /\ UNCHANGED <<textVars, doc, pipeline, renderVars, parserVars, recipe>>

----------------------------------------------------------------------------
(* parser.recipeTransformer.Transform (src/unnamed/part_001, lines 1-249)   *)

\* s[a:b] of Go, a and b counted from 0
Slice(s, a, b) == SubSeq(s, a + 1, b)

\* parser.extractText: the Text nodes below the node, in order
RECURSIVE tExtractText(_)
tExtractText(node) ==
    IF node.kind = "Text" THEN node.value
    ELSE Concat([i \in 1..Len(node.children) |-> tExtractText(node.children[i])])

\* parser.isAllEmphasis
isAllEmphasis(p) ==
    /\ Len(p.children) = 1
    /\ p.children[1].kind = "Emphasis"
    /\ p.children[1].level = 1

\* parser.isAllStrong
isAllStrong(p) ==
    /\ Len(p.children) = 1
    /\ p.children[1].kind = "Emphasis"
    /\ p.children[1].level = 2

\* "Determine section boundaries": Go indices, -1 when there is no such break
BreakIndices(children) == {i \in 0..(Len(children) - 1) : children[i + 1].kind = "ThematicBreak"}

firstBreakIdx(children) ==
    IF BreakIndices(children) = {} THEN -1 ELSE Min(BreakIndices(children))

secondBreakIdx(children) ==
    LET later == BreakIndices(children) \ {firstBreakIdx(children)}
    IN  IF later = {} THEN -1 ELSE Min(later)

\* the three slices Transform hands to processMetadata, processIngredients
\* and processInstructions (empty when the call is not made)
metadataSlice(children) ==
    LET metaEnd == IF firstBreakIdx(children) # -1 THEN firstBreakIdx(children)
                   ELSE Len(children)
    IN  Slice(children, 0, metaEnd)

ingredientsSlice(children) ==
    IF firstBreakIdx(children) # -1
    THEN LET ingredientsStart == firstBreakIdx(children) + 1
             ingredientsEnd   == IF secondBreakIdx(children) # -1
                                 THEN secondBreakIdx(children) ELSE Len(children)
         IN  IF ingredientsStart < ingredientsEnd
             THEN Slice(children, ingredientsStart, ingredientsEnd) ELSE <<>>
    ELSE <<>>

instructionsSlice(children) ==
    IF secondBreakIdx(children) # -1 /\ secondBreakIdx(children) + 1 < Len(children)
    THEN Slice(children, secondBreakIdx(children) + 1, Len(children))
    ELSE <<>>

\* a node of pkg/ast that wraps nodes of the document
Wrap(kind, children) == [kind |-> kind, children |-> children]

\* index of the Description child of the recipe, 0 when there is none yet
DescriptionIndex(rc) ==
    IF \E i \in 1..Len(rc) : rc[i].kind = "Description"
    THEN CHOOSE i \in 1..Len(rc) : rc[i].kind = "Description"
    ELSE 0

\* parser.recipeTransformer.processMetadata: the children of the recipe node
RECURSIVE processMetadata(_, _)
processMetadata(rc, nodes) ==
    IF nodes = <<>> THEN rc
    ELSE LET n == Head(nodes)
             next ==
               IF n.kind = "Heading"
               THEN IF n.level = 1 THEN Append(rc, Wrap("Title", <<n>>)) ELSE rc
               ELSE IF n.kind = "Paragraph"
               THEN IF isAllEmphasis(n) THEN Append(rc, Wrap("Tags", <<n>>))
                    ELSE IF isAllStrong(n) THEN Append(rc, Wrap("Yields", <<n>>))
                    ELSE IF DescriptionIndex(rc) = 0
                         THEN Append(rc, Wrap("Description", <<n>>))
                         ELSE [rc EXCEPT ![DescriptionIndex(rc)].children = Append(@, n)]
               ELSE rc
         IN  processMetadata(next, Tail(nodes))

\* the TextBlock or Paragraph child of the list item, NilNode without one
TextContainer(item) ==
    LET idx == {i \in 1..Len(item.children) :
                   item.children[i].kind \in {"TextBlock", "Paragraph"}}
    IN  IF idx = {} THEN NilNode ELSE item.children[Min(idx)]

\* one turn of the loop of parseIngredientContent
ContentStep(st, child) ==
    IF child.kind = "Emphasis"
    THEN IF st.inAmount /\ child.level = 1
         THEN [st EXCEPT !.amountParts = Append(@, tExtractText(child))]
         ELSE [st EXCEPT !.nameParts = Append(@, tExtractText(child))]
    ELSE IF child.kind = "Text"
    THEN [st EXCEPT !.inAmount = FALSE, !.nameParts = Append(@, child.value)]
    ELSE [st EXCEPT !.nameParts = Append(@, tExtractText(child))]

RECURSIVE ContentLoop(_, _)
ContentLoop(st, rest) ==
    IF rest = <<>> THEN st ELSE ContentLoop(ContentStep(st, Head(rest)), Tail(rest))

\* parser.recipeTransformer.parseIngredientContent on a new ast.Ingredient.
\* Amount and Name are parts of the joined strings: AmountPtr and NamePtr
\* are the bytes behind their pointers.
parseIngredientContent(item) ==
    IF TextContainer(item) = NilNode
    THEN [kind |-> "Ingredient", Amount |-> <<>>, Name |-> <<>>,
          AmountPtr |-> <<>>, NamePtr |-> <<>>]
    ELSE LET st == ContentLoop([amountParts |-> <<>>, nameParts |-> <<>>,
                                inAmount |-> TRUE], TextContainer(item).children)
             amount == JSONTrimSpace(JSONString(Join(st.amountParts, <<" ">>)))
             name   == JSONTrimSpace(JSONString(Join(st.nameParts, <<>>)))
         IN  [kind      |-> "Ingredient",
              Amount    |-> TrimSpace(Join(st.amountParts, <<" ">>)),
              Name      |-> TrimSpace(Join(st.nameParts, <<>>)),
              AmountPtr |-> amount.ptr,
              NamePtr   |-> name.ptr]

\* parser.recipeTransformer.processIngredientList: the new Ingredient nodes
RECURSIVE processIngredientList(_)
processIngredientList(items) ==
    IF items = <<>> THEN <<>>
    ELSE (IF Head(items).kind = "ListItem"
          THEN <<parseIngredientContent(Head(items))>> ELSE <<>>)
         \o processIngredientList(Tail(items))

\* parser.recipeTransformer.processIngredients: the children of the
\* Ingredients node; cur is the position of currentGroup among them, 0 for nil
RECURSIVE processIngredients(_, _, _)
processIngredients(ic, cur, nodes) ==
    IF nodes = <<>> THEN ic
    ELSE LET n == Head(nodes)
         IN  IF n.kind = "Heading"
             THEN processIngredients(
                      Append(ic, [kind |-> "IngredientGroup", Name |-> tExtractText(n),
                                  children |-> <<n>>]),
                      Len(ic) + 1, Tail(nodes))
             ELSE IF n.kind = "List"
             THEN processIngredients(
                      IF cur # 0
                      THEN [ic EXCEPT ![cur].children = @ \o processIngredientList(n.children)]
                      ELSE ic \o processIngredientList(n.children),
                      cur, Tail(nodes))
             ELSE processIngredients(ic, cur, Tail(nodes))

\* the Recipe node built by Transform
TransformRecipeNode(children) ==
    LET meta == processMetadata(<<>>, metadataSlice(children))
        ingr == IF ingredientsSlice(children) # <<>>
                THEN <<Wrap("Ingredients",
                            processIngredients(<<>>, 0, ingredientsSlice(children)))>>
                ELSE <<>>
        inst == IF instructionsSlice(children) # <<>>
                THEN <<Wrap("Instructions", instructionsSlice(children))>>
                ELSE <<>>
    IN  [kind |-> "Recipe", children |-> meta \o ingr \o inst]

\* the ids of the document blocks that were moved below the Recipe node: the
\* blocks below Title, Description, Tags, Yields and Instructions, and the
\* heading below every IngredientGroup
ReparentedIds(recipeNode) ==
    UNION { LET w == recipeNode.children[i]
            IN  IF w.kind \in {"Title", "Description", "Tags", "Yields", "Instructions"}
                THEN {w.children[j].id : j \in DOMAIN w.children}
                ELSE IF w.kind = "Ingredients"
                THEN UNION { IF w.children[g].kind = "IngredientGroup"
                             THEN {w.children[g].children[j].id :
                                      j \in {h \in DOMAIN w.children[g].children :
                                                w.children[g].children[h].kind = "Heading"}}
                             ELSE {} : g \in DOMAIN w.children }
                ELSE {} : i \in DOMAIN recipeNode.children }

\* the ids of the lists processIngredients took out of the document
\* (n.Parent().RemoveChild) without giving them a new parent
RemovedListIds(children) ==
    {ingredientsSlice(children)[j].id :
        j \in {k \in DOMAIN ingredientsSlice(children) :
                  ingredientsSlice(children)[k].kind = "List"}}

\* the children the document still has when processInstructions returned
DetachReparented(children, recipeNode) ==
    SelectSeq(children,
              LAMBDA c : c.id \notin ReparentedIds(recipeNode) \cup RemovedListIds(children))

\* a loop that stops at the first thematic break it meets
RECURSIVE RemoveFirstChildLoop_StopAtBreak(_)
RemoveFirstChildLoop_StopAtBreak(children) ==
    IF children = <<>> \/ Head(children).kind = "ThematicBreak" THEN children
    ELSE RemoveFirstChildLoop_StopAtBreak(Tail(children))

\* for doc.FirstChild() != nil { doc.RemoveChild(doc, doc.FirstChild()) }
RECURSIVE RemoveFirstChildLoop(_)
RemoveFirstChildLoop(children) ==
    IF children = <<>> THEN children
    ELSE RemoveFirstChildLoop(Tail(children))

\* the end of recipeTransformer.Transform: the document's children
ReplaceDocChildren(children, recipeNode) ==
    Append(RemoveFirstChildLoop(DetachReparented(children, recipeNode)), recipeNode)

TransformerTransform ==
    /\ pc = "transform"
    /\ root' = ReplaceDocChildren(doc, TransformRecipeNode(doc))
    /\ pc' = "transformed"
    /\ UNCHANGED <<textVars, doc, pipeline, renderVars, parserVars, recipe>>

----------------------------------------------------------------------------
(* pkg/recipe.go: ExtractRecipe *)

\* recipemd.extractText: Text and String nodes
RECURSIVE pkgExtractText(_)
pkgExtractText(node) ==
    IF node.kind \in {"Text", "String"} THEN node.value
    ELSE Concat([i \in 1..Len(node.children) |-> pkgExtractText(node.children[i])])

EmptyRecipe ==
    [Title |-> <<>>, Description |-> <<>>, Tags |-> <<>>, Yields |-> <<>>,
     Ingredients |-> <<>>, Instructions |-> <<>>]

\* the Ingredient struct of an ast.Ingredient node
ExtractIngredient(n) ==
    [Name   |-> n.Name,
     Amount |-> IF n.Amount # <<>> THEN pkgParseAmount(n.Amount) ELSE NilNode]

\* recipemd.extractIngredients
extractIngredients(node) ==
    LET entries == SelectSeq(node.children,
                             LAMBDA c : c.kind \in {"Ingredient", "IngredientGroup"})
    IN  [i \in 1..Len(entries) |->
           LET n == entries[i]
           IN  IF n.kind = "Ingredient" THEN ExtractIngredient(n)
               ELSE [Name |-> n.Name,
                     Ingredients |->
                        LET ings == SelectSeq(n.children, LAMBDA c : c.kind = "Ingredient")
                        IN  [j \in 1..Len(ings) |-> ExtractIngredient(ings[j])]]]

\* the paragraphs of a Description or Instructions node, joined
JoinTrimmed(node) ==
    Join([i \in 1..Len(node.children) |-> TrimSpace(pkgExtractText(node.children[i]))],
         ParagraphBreak)

\* recipemd.extractInstructions
extractInstructions(node) == JoinTrimmed(node)

\* one turn of the loop of ExtractRecipe over the children of the Recipe node
ExtractStep(r, n) ==
    IF n.kind = "Title" THEN [r EXCEPT !.Title = pkgExtractText(n)]
    ELSE IF n.kind = "Description" THEN [r EXCEPT !.Description = JoinTrimmed(n)]
    ELSE IF n.kind = "Tags" THEN [r EXCEPT !.Tags = @ \o ExtractTags(pkgExtractText(n))]
    ELSE IF n.kind = "Yields" THEN [r EXCEPT !.Yields = @ \o ExtractYields(pkgExtractText(n))]
    ELSE IF n.kind = "Ingredients" THEN [r EXCEPT !.Ingredients = extractIngredients(n)]
    ELSE IF n.kind = "Instructions" THEN [r EXCEPT !.Instructions = extractInstructions(n)]
    ELSE r

RECURSIVE ExtractLoop(_, _)
ExtractLoop(r, nodes) ==
    IF nodes = <<>> THEN r ELSE ExtractLoop(ExtractStep(r, Head(nodes)), Tail(nodes))

\* recipemd.ExtractRecipe on the children of a document
ExtractRecipe(docChildren) ==
    LET idx == {i \in 1..Len(docChildren) : docChildren[i].kind = "Recipe"}
    IN  IF idx = {} THEN EmptyRecipe
        ELSE ExtractLoop(EmptyRecipe, docChildren[Min(idx)].children)

CallExtractRecipe ==
    /\ pc = "transformed"
    /\ recipe' = ExtractRecipe(root)
    /\ pc' = "extracted"
    /\ UNCHANGED <<textVars, doc, pipeline, renderVars, parserVars, root>>

----------------------------------------------------------------------------
(* Input documents and the two pipelines *)

RECURSIVE SeqsUpTo(_, _)
SeqsUpTo(S, n) ==
    IF n = 0 THEN {<<>>}
    ELSE LET shorter == SeqsUpTo(S, n - 1)
         IN  shorter \cup {Append(q, c) : q \in {r \in shorter : Len(r) = n - 1}, c \in S}

\* the blocks of a document get their position as identity
WithIds(blocks) == [i \in 1..Len(blocks) |-> [blocks[i] EXCEPT !.id = i]]

\* "- *2* x": a list of one item with an amount
OneItemList ==
    List(<<ListItem(<<TextBlock(<<Emphasis(1, <<Text(<<"2">>)>>), Text(<<" ", "x">>)>>)>>)>>)

\* one block of every kind the type switches tell apart
SegBlocks ==
    { Heading(1, <<Text(<<"T">>)>>),
      Heading(2, <<Text(<<"G">>)>>),
      Paragraph(<<Text(<<"d">>)>>),
      OneItemList,
      ThematicBreak,
      CodeBlock(<<"c">>) }

\* the blocks the metadata classifier tells apart: two titles, a heading
\* without text, plain / fully italic / fully bold / mixed paragraphs
MetaBlocks ==
    { Heading(1, <<Text(<<"T">>)>>),
      Heading(1, <<Text(<<"U">>)>>),
      Heading(1, <<>>),
      Paragraph(<<Text(<<"d">>)>>),
      Paragraph(<<Emphasis(1, <<Text(<<"a", ",", "b">>)>>)>>),
      Paragraph(<<Emphasis(1, <<Text(<<"c">>)>>)>>),
      Paragraph(<<Emphasis(2, <<Text(<<"2", " ", "x">>)>>)>>),
      Paragraph(<<Emphasis(2, <<Text(<<"3">>)>>)>>),
      Paragraph(<<Emphasis(1, <<Text(<<"e">>)>>), Text(<<" ", "f">>)>>),
      OneItemList,
      ThematicBreak,
      CodeBlock(<<"c">>) }

NoOut == [fn |-> "none", segs |-> <<>>, val |-> <<>>]

DocInit(blocks, maxLen) ==
    /\ doc \in {WithIds(d) : d \in SeqsUpTo(blocks, maxLen)}
    /\ pipeline \in {"parser", "transformer"}
    /\ pc = IF pipeline = "parser" THEN "parse" ELSE "transform"
    /\ ParserStart
    /\ RenderStart
    /\ root = doc
    /\ recipe = NilNode
    /\ text = <<>>
    /\ out = NoOut

Init == DocInit(SegBlocks, MaxSegBlocks)

MetaInit == DocInit(MetaBlocks, MaxMetaBlocks)

Next ==
    \/ ParserHeading
    \/ ParserParagraph
    \/ ParserList
    \/ ParserThematicBreak
    \/ ParserOther
    \/ ParserFinish
    \/ TransformerTransform
    \/ CallExtractRecipe

Spec == Init /\ [][Next]_vars

SpecMeta == MetaInit /\ [][Next]_vars

----------------------------------------------------------------------------
(* The comma rule of the specification, stated without the code *)

\* a comma is a boundary unless both neighbours are ASCII decimal digits
RefBoundary(s, i) ==
    /\ s[i] = ","
    /\ ~(i > 1 /\ i < Len(s) /\ IsAsciiDigit(s[i - 1]) /\ IsAsciiDigit(s[i + 1]))

RECURSIVE RefRuns(_, _)
RefRuns(s, start) ==
    LET cuts == {i \in start..Len(s) : RefBoundary(s, i)}
    IN  IF cuts = {} THEN <<SubSeq(s, start, Len(s))>>
        ELSE <<SubSeq(s, start, Min(cuts) - 1)>> \o RefRuns(s, Min(cuts) + 1)

RefSplit(s) == TrimNonEmpty(RefRuns(s, 1))

\* the split of one amount text that the claim describes, read off the
\* result of extension.parseAmount: numeric part and unit ("" for no unit)
AmountSplit(t) ==
    LET a == parseAmount(t)
    IN  <<a.factor, IF a.unit = Nil THEN <<>> ELSE a.unit>>

----------------------------------------------------------------------------
(* What the pipelines report besides the tree *)

\* ASTTransformer.Transform and ExtractRecipe have no error result: no run
\* of either pipeline aborts
ParseAborted == FALSE

\* neither pipeline keeps a list of warnings
Warnings == <<>>

----------------------------------------------------------------------------
(* The sections of a document by position, stated without the code *)

RefBreaks(d) == {i \in 1..Len(d) : d[i].kind = "ThematicBreak"}

RefFirstBreak(d) == IF RefBreaks(d) = {} THEN 0 ELSE Min(RefBreaks(d))

RefSecondBreak(d) ==
    IF Cardinality(RefBreaks(d)) < 2 THEN 0 ELSE Min(RefBreaks(d) \ {RefFirstBreak(d)})

RefSection(d, i) ==
    IF RefFirstBreak(d) = 0 \/ i < RefFirstBreak(d) THEN "metadata"
    ELSE IF i = RefFirstBreak(d) \/ i = RefSecondBreak(d) THEN "divider"
    ELSE IF RefSecondBreak(d) = 0 \/ i < RefSecondBreak(d) THEN "ingredients"
    ELSE "instructions"

\* the positions of a section, ascending
RECURSIVE Ascending(_)
Ascending(S) == IF S = {} THEN <<>> ELSE <<Min(S)>> \o Ascending(S \ {Min(S)})

RefPositions(d, section) == Ascending({i \in 1..Len(d) : RefSection(d, i) = section})

Ids(nodes) == [i \in 1..Len(nodes) |-> nodes[i].id]

\* the section in which recipeParser dealt with a block: the section of the
\* field the block went to, the section of the divider flags for a block
\* that went nowhere
LandedSection(h) ==
    IF h.effect \in {"title", "description", "tags", "yields"} THEN "metadata"
    ELSE IF h.effect \in {"group", "ingredients"} THEN "ingredients"
    ELSE IF h.effect = "instructions" THEN "instructions"
    ELSE IF ~h.first THEN "metadata"
    ELSE IF ~h.second THEN "ingredients"
    ELSE "instructions"

ParserDone == pipeline = "parser" /\ pc = "parsed"

TransformerDone == pipeline = "transformer" /\ pc \in {"transformed", "extracted"}

Extracted == pipeline = "transformer" /\ pc = "extracted"

\* the children of the Recipe node that wrap document nodes
RecipeChildren == root[1].children

\* the ids of the document nodes below the wrappers of the given kinds
WrappedIds(kinds) ==
    Concat([i \in 1..Len(RecipeChildren) |->
              IF RecipeChildren[i].kind \in kinds
              THEN Ids(RecipeChildren[i].children) ELSE <<>>])

IsSubsetOfSection(ids, section) ==
    \A k \in 1..Len(ids) : RefSection(doc, ids[k]) = section

\* C1: with at least one thematic break, the blocks before the first break
\* are the metadata section, those strictly between the first and second
\* break (or up to the end) the ingredients section, those after the second
\* break the instructions section; order kept, no block in two sections, no
\* non-break block dropped - in recipeParser and in recipeTransformer.
C1_Segmentation ==
    /\ (ParserDone /\ RefBreaks(doc) # {}) =>
          \A i \in 1..Len(doc) :
              doc[i].kind # "ThematicBreak" => LandedSection(handled[i]) = RefSection(doc, i)
    /\ (TransformerDone /\ RefBreaks(doc) # {}) =>
          /\ Ids(metadataSlice(doc)) = RefPositions(doc, "metadata")
          /\ Ids(ingredientsSlice(doc)) = RefPositions(doc, "ingredients")
          /\ Ids(instructionsSlice(doc)) = RefPositions(doc, "instructions")
          /\ IsSubsetOfSection(WrappedIds({"Title", "Description", "Tags", "Yields"}),
                               "metadata")
          /\ WrappedIds({"Instructions"}) = RefPositions(doc, "instructions")

\* C2: only the first two thematic breaks are boundaries: a third or later
\* break is kept as ordinary content of the instructions section, and every
\* block after it is still an instruction block.
C2_ThirdBreakIsContent ==
    \A i \in 1..Len(doc) :
        (doc[i].kind = "ThematicBreak" /\ RefSection(doc, i) = "instructions") =>
            /\ ParserDone =>
                  \A j \in i..Len(doc) : handled[j].effect = "instructions"
            /\ TransformerDone =>
                  \A j \in i..Len(doc) :
                      \E k \in 1..Len(WrappedIds({"Instructions"})) :
                          WrappedIds({"Instructions"})[k] = j

\* the recipe of the parser pipeline: what the JSON export reads
ParserMetadata == RecipeChildren[1]

ParserTags ==
    LET ts == SelectSeq(ParserMetadata.children, LAMBDA c : c.kind = "RecipeTags")
    IN  IF ts = <<>> THEN <<>> ELSE ts[Len(ts)].Tags

ParserYields ==
    LET ys == SelectSeq(ParserMetadata.children, LAMBDA c : c.kind = "RecipeYields")
    IN  IF ys = <<>> THEN <<>> ELSE ys[Len(ys)].children

ParserHasIngredients ==
    \E i \in 1..Len(RecipeChildren) :
        RecipeChildren[i].kind \in {"IngredientList", "IngredientGroup"}

ParserHasInstructions ==
    \E i \in 1..Len(RecipeChildren) : RecipeChildren[i].kind = "Instructions"

\* the end of a pipeline: the Recipe is there
Finished == ParserDone \/ Extracted

FinalTitle == IF pipeline = "parser" THEN ParserMetadata.Title ELSE recipe.Title

FinalEmptySections ==
    IF pipeline = "parser" THEN ~ParserHasIngredients /\ ~ParserHasInstructions
    ELSE recipe.Ingredients = <<>> /\ recipe.Instructions = <<>>

\* every block was dealt with as metadata
AllTreatedAsMetadata ==
    IF pipeline = "parser"
    THEN \A i \in 1..Len(doc) : LandedSection(handled[i]) = "metadata"
    ELSE Ids(metadataSlice(doc)) = [i \in 1..Len(doc) |-> i]

\* C3: a document with zero thematic breaks fails with StructureError in
\* strict mode; in permissive mode the parse returns a Recipe with empty
\* ingredients and instructions, all blocks treated as metadata, plus
\* exactly one Warning.
C3_NoBreak ==
    (Finished /\ RefBreaks(doc) = {}) =>
        \/ ParseAborted
        \/ (FinalEmptySections /\ AllTreatedAsMetadata /\ Len(Warnings) = 1)

IsTitleHeading(n) == n.kind = "Heading" /\ n.level = 1

\* the level-1 headings of the metadata section
RefMetaTitles(d) ==
    {i \in 1..Len(d) : RefSection(d, i) = "metadata" /\ IsTitleHeading(d[i])}

\* the flattened text of a node: its Text leaves in order
RECURSIVE RefFlatten(_)
RefFlatten(n) ==
    IF n.kind = "Text" THEN n.value
    ELSE Concat([i \in 1..Len(n.children) |-> RefFlatten(n.children[i])])

\* C4: a parse yields one complete Recipe with a non-empty Title or aborts:
\* a document without level-1 heading in its metadata section never
\* produces a Recipe.
C4_TitleOrAbort ==
    /\ Finished => (ParseAborted \/ FinalTitle # <<>>)
    /\ (Finished /\ RefMetaTitles(doc) = {}) => ParseAborted

\* the description of the Recipe
FinalDescription ==
    IF pipeline = "parser" THEN ParserMetadata.Description ELSE recipe.Description

\* s contains t as a contiguous piece
Contains(s, t) ==
    \E a \in 0..(Len(s) - Len(t)) : SubSeq(s, a + 1, a + Len(t)) = t

\* C5: in both pipelines the Title is the flattened text of the first
\* level-1 heading among the metadata blocks; a second level-1 heading in
\* the metadata never replaces it (its text is folded into the
\* Description), and a level-1 heading after the first thematic break never
\* becomes the Title.
C5_FirstHeadingIsTitle ==
    Finished =>
        /\ RefMetaTitles(doc) # {} =>
              /\ FinalTitle = RefFlatten(doc[Min(RefMetaTitles(doc))])
              /\ \A i \in RefMetaTitles(doc) \ {Min(RefMetaTitles(doc))} :
                     Contains(FinalDescription, RefFlatten(doc[i]))
        /\ RefMetaTitles(doc) = {} => FinalTitle = <<>>

\* the class of a metadata paragraph by the rule of the specification
RefClass(para) ==
    IF Len(para.children) = 1 /\ para.children[1].kind = "Emphasis"
          /\ para.children[1].level = 1
    THEN "tags"
    ELSE IF Len(para.children) = 1 /\ para.children[1].kind = "Emphasis"
               /\ para.children[1].level = 2
    THEN "yields"
    ELSE "description"

RefMetaParagraphs(d) ==
    {i \in 1..Len(d) : RefSection(d, i) = "metadata" /\ d[i].kind = "Paragraph"}

\* the wrapper under which recipeTransformer put the block i, "none" for a
\* block under no wrapper
TransformerClass(i) ==
    LET ws == {k \in 1..Len(RecipeChildren) :
                  /\ RecipeChildren[k].kind \in {"Title", "Description", "Tags", "Yields"}
                  /\ \E c \in 1..Len(RecipeChildren[k].children) :
                         RecipeChildren[k].children[c].id = i}
    IN  IF Cardinality(ws) # 1 THEN "none"
        ELSE LET kind == RecipeChildren[CHOOSE k \in ws : TRUE].kind
             IN  IF kind = "Tags" THEN "tags"
                 ELSE IF kind = "Yields" THEN "yields"
                 ELSE IF kind = "Description" THEN "description"
                 ELSE "title"

\* how the pipeline classified the metadata paragraph i
ClassifiedAs(i) == IF pipeline = "parser" THEN handled[i].effect ELSE TransformerClass(i)

\* a level-1 heading with text stands before the block i
TitleSetBefore(d, i) ==
    \E j \in 1..(i - 1) : IsTitleHeading(d[j]) /\ RefFlatten(d[j]) # <<>>

\* C6 as stated: every paragraph among the metadata blocks is Tags iff it
\* has exactly one child and that child is a level-1 emphasis, Yields iff
\* exactly one child that is a level-2 emphasis, Description otherwise,
\* whatever its position relative to the title.
C6_EveryMetaParagraphClassified ==
    (ParserDone \/ TransformerDone) =>
        \A i \in RefMetaParagraphs(doc) : ClassifiedAs(i) = RefClass(doc[i])

\* C6, amended: the rule holds in recipeTransformer for every metadata
\* paragraph, and in recipeParser for the metadata paragraphs that follow a
\* level-1 heading with text; recipeParser skips the metadata paragraphs
\* before it.
C6_ClassifiedAfterTitle ==
    (ParserDone \/ TransformerDone) =>
        \A i \in RefMetaParagraphs(doc) :
            IF pipeline = "parser" /\ ~TitleSetBefore(doc, i)
            THEN ClassifiedAs(i) = "skip"
            ELSE ClassifiedAs(i) = RefClass(doc[i])

\* C6, witness: recipeParser has finished a document in which a metadata
\* paragraph before the title was skipped and a fully italic paragraph after
\* the title became the tags
C6_Witness ==
    /\ ParserDone
    /\ \E i, j \in RefMetaParagraphs(doc) :
          /\ ~TitleSetBefore(doc, i)
          /\ handled[i].effect = "skip"
          /\ TitleSetBefore(doc, j)
          /\ RefClass(doc[j]) = "tags"
          /\ handled[j].effect = "tags"

\* the positions of the metadata paragraphs the pipeline took as class c
TakenAs(c) == {i \in RefMetaParagraphs(doc) : ClassifiedAs(i) = c}

FinalTags == IF pipeline = "parser" THEN ParserTags ELSE recipe.Tags

\* the yields as (factor, unit) pairs, "" for no unit
FinalYields ==
    IF pipeline = "parser"
    THEN [i \in 1..Len(ParserYields) |->
            <<ParserYields[i].Factor,
              IF ParserYields[i].Unit = Nil THEN <<>> ELSE ParserYields[i].Unit>>]
    ELSE [i \in 1..Len(recipe.Yields) |-> <<recipe.Yields[i].Amount, recipe.Yields[i].Unit>>]

RefYields(t) ==
    [i \in 1..Len(RefSplit(t)) |-> AmountSplit(RefSplit(t)[i])]

\* C7: of several metadata paragraphs that match the Tags (Yields)
\* predicate only the first in document order determines the Tags
\* (Yields); every later one leaves them unchanged and is folded into the
\* Description with a Warning.
C7_FirstTagsAndYieldsWin ==
    Finished =>
        /\ TakenAs("tags") # {} =>
              FinalTags = RefSplit(RefFlatten(doc[Min(TakenAs("tags"))]))
        /\ TakenAs("yields") # {} =>
              FinalYields = RefYields(RefFlatten(doc[Min(TakenAs("yields"))]))
        /\ \A c \in {"tags", "yields"} :
              \A i \in {j \in RefMetaParagraphs(doc) :
                          /\ RefClass(doc[j]) = c
                          /\ \E k \in TakenAs(c) : k < j} :
                  /\ Contains(FinalDescription, RefFlatten(doc[i]))
                  /\ Len(Warnings) > 0

----------------------------------------------------------------------------
(* The text functions applied to one input text *)

TextChars == {",", "1", "a", " ", "/", NonAsciiDigit}

\* the examples of the documentation and of the tests
SampleTexts ==
    { <<"4", " ", "s", "e", "r", "v", "i", "n", "g", "s", ",", " ", "1", ",", "5", " ", "k", "g">>,
      <<"t", "a", "g", "1", ",", " ", "t", "a", "g", "2", ",", " ", "t", "a", "g", "3">>,
      <<"2", " ", "1", "/", "4", " ", "c", "u", "p", "s">>,
      <<"5">>,
      <<"1", ".", "2", " ", "m", "l">>,
      <<"c", "u", "p", "s">>,
      <<"1", "/", "0">>,
      <<"1", "/", "0", " ", "k", "g">>,
      <<"1", " ", "1", "/", "4">>,
      <<"1", ",", "5">>,
      <<"3", "/", "4", " ", "l">>,
      <<"2", " ", " ", "c", "u", "p", "s">>,
      <<"U+00BD">>,
      <<"U+00BD", " ", "c", "u", "p">> }

Texts == SeqsUpTo(TextChars, MaxTextLen) \cup SampleTexts

TextInit ==
    /\ pc = "text"
    /\ text \in Texts
    /\ out = NoOut
    /\ doc = <<>>
    /\ pipeline = "none"
    /\ ParserStart
    /\ RenderStart
    /\ root = <<>>
    /\ recipe = NilNode

CallSplitTags ==
    /\ pc = "text"
    /\ pc' = "text_done"
    /\ out' = [fn |-> "splitTags", segs |-> splitTags(text), val |-> splitTags(text)]
    /\ UNCHANGED <<text, doc, pipeline, renderVars, parserVars, root, recipe>>

CallParseYields ==
    /\ pc = "text"
    /\ pc' = "text_done"
    /\ out' = [fn |-> "parseYields", segs |-> splitTags(text), val |-> parseYields(text)]
    /\ UNCHANGED <<text, doc, pipeline, renderVars, parserVars, root, recipe>>

CallParseAmount ==
    /\ pc = "text"
    /\ pc' = "text_done"
    /\ out' = [fn |-> "parseAmount", segs |-> <<text>>, val |-> parseAmount(text)]
    /\ UNCHANGED <<text, doc, pipeline, renderVars, parserVars, root, recipe>>

CallExtractTags ==
    /\ pc = "text"
    /\ pc' = "text_done"
    /\ out' = [fn |-> "ExtractTags", segs |-> ExtractTags(text), val |-> ExtractTags(text)]
    /\ UNCHANGED <<text, doc, pipeline, renderVars, parserVars, root, recipe>>

CallExtractYields ==
    /\ pc = "text"
    /\ pc' = "text_done"
    /\ out' = [fn |-> "ExtractYields", segs |-> TrimNonEmpty(Split(text, ",")), val |-> ExtractYields(text)]
    /\ UNCHANGED <<text, doc, pipeline, renderVars, parserVars, root, recipe>>

CallPkgParseAmount ==
    /\ pc = "text"
    /\ pc' = "text_done"
    /\ out' = [fn |-> "pkgParseAmount", segs |-> <<text>>, val |-> pkgParseAmount(text)]
    /\ UNCHANGED <<text, doc, pipeline, renderVars, parserVars, root, recipe>>

CallParseYield ==
    /\ pc = "text"
    /\ pc' = "text_done"
    /\ out' = [fn |-> "parseYield", segs |-> <<text>>, val |-> parseYield(text)]
    /\ UNCHANGED <<text, doc, pipeline, renderVars, parserVars, root, recipe>>

CallJSONRenderTags ==
    /\ pc = "text"
    /\ pc' = "text_done"
    /\ out' = [fn |-> "JSONRenderTags", segs |-> JSONRenderTags(text), val |-> JSONRenderTags(text)]
    /\ LET run == JSONRun(jsonRenderer, heap, <<>>,
                          JSONAppends("Tags", JSONTrimmedPieces(text)))
       IN  jsonRenderer' = run.r /\ heap' = run.h
    /\ UNCHANGED <<text, doc, pipeline, renderer, walks, parserVars, root, recipe>>

CallJSONRenderYields ==
    /\ pc = "text"
    /\ pc' = "text_done"
    /\ out' = [fn |-> "JSONRenderYields", segs |-> JSONRenderYields(text), val |-> JSONRenderYields(text)]
    /\ LET run == JSONRun(jsonRenderer, heap, <<>>,
                          JSONAppends("Yields", JSONTrimmedPieces(text)))
       IN  jsonRenderer' = run.r /\ heap' = run.h
    /\ UNCHANGED <<text, doc, pipeline, renderer, walks, parserVars, root, recipe>>

CallHTMLRenderTags ==
    /\ pc = "text"
    /\ pc' = "text_done"
    /\ out' = [fn |-> "HTMLRenderTags", segs |-> HTMLRenderTags(text), val |-> HTMLRenderTags(text)]
    /\ UNCHANGED <<text, doc, pipeline, renderVars, parserVars, root, recipe>>

CallHTMLRenderYields ==
    /\ pc = "text"
    /\ pc' = "text_done"
    /\ out' = [fn |-> "HTMLRenderYields", segs |-> HTMLRenderYields(text), val |-> HTMLRenderYields(text)]
    /\ UNCHANGED <<text, doc, pipeline, renderVars, parserVars, root, recipe>>

TextNext ==
    \/ CallSplitTags
    \/ CallParseYields
    \/ CallParseAmount
    \/ CallExtractTags
    \/ CallExtractYields
    \/ CallPkgParseAmount
    \/ CallParseYield
    \/ CallJSONRenderTags
    \/ CallJSONRenderYields
    \/ CallHTMLRenderTags
    \/ CallHTMLRenderYields

SpecText == TextInit /\ [][TextNext]_vars

Returned(fn) == pc = "text_done" /\ out.fn = fn

\* C8: for every input string splitTags returns the reference split (a comma
\* is a boundary unless both neighbours are ASCII decimal digits; runs in
\* order, trimmed, empty runs discarded); "4 servings, 1,5 kg" gives
\* ["4 servings", "1,5 kg"] and "tag1, tag2, tag3" gives 3 segments.
C8_SplitTagsIsReferenceSplit ==
    Returned("splitTags") =>
        /\ out.val = RefSplit(text)
        /\ text = <<"4", " ", "s", "e", "r", "v", "i", "n", "g", "s", ",", " ", "1", ",", "5", " ", "k", "g">>
              => out.val = << <<"4", " ", "s", "e", "r", "v", "i", "n", "g", "s">>,
                              <<"1", ",", "5", " ", "k", "g">> >>
        /\ text = <<"t", "a", "g", "1", ",", " ", "t", "a", "g", "2", ",", " ", "t", "a", "g", "3">>
              => Len(out.val) = 3

\* C9: tags and yields are split by one and the same comma rule everywhere:
\* the segments of ExtractRecipe, of the JSON renderer and of the HTML
\* renderer are the list that splitTags / parseYields produce.
C9_OneCommaRuleEverywhere ==
    (pc = "text_done" /\ out.fn \in {"ExtractTags", "ExtractYields", "JSONRenderTags",
                                     "JSONRenderYields", "HTMLRenderTags", "HTMLRenderYields"})
        => out.segs = splitTags(text)

\* C10: when a numeric token is recognized parseAmount returns it as the
\* factor and the trimmed rest as the unit (no unit when nothing remains);
\* "2 1/4 cups" gives 2 1/4 and "cups", "5" has no unit; parseAmount and
\* parseYield of pkg/recipe.go make the same split.
C10_AmountSplit ==
    /\ Returned("parseAmount") =>
          /\ text = <<"2", " ", "1", "/", "4", " ", "c", "u", "p", "s">>
                => out.val = [factor |-> <<"2", " ", "1", "/", "4">>,
                              unit |-> <<"c", "u", "p", "s">>]
          /\ text = <<"5">> => out.val = [factor |-> <<"5">>, unit |-> Nil]
          /\ numberPattern(TrimSpace(text)) > 0 =>
                \E n \in 1..Len(TrimSpace(text)) :
                    /\ out.val.factor = TrimSpace(SubSeq(TrimSpace(text), 1, n))
                    /\ LET rest == TrimSpace(SubSeq(TrimSpace(text), n + 1, Len(TrimSpace(text))))
                       IN  out.val.unit = IF rest = <<>> THEN Nil ELSE rest
    /\ (Returned("pkgParseAmount") /\ text = TrimSpace(text) /\ numberPattern(text) > 0)
          => <<out.val.Quantity, out.val.Unit>> = AmountSplit(text)
    /\ (Returned("parseYield") /\ text = TrimSpace(text) /\ numberPattern(text) > 0)
          => <<out.val.Amount, out.val.Unit>> = AmountSplit(text)

----------------------------------------------------------------------------
(* The amount grammar of the specification, stated without the code: the   *)
(* numeric token at the start of a trimmed span and its value as a fraction *)

VulgarHalf == "U+00BD"   \* VULGAR FRACTION ONE HALF

DigitVal(c) ==
    CASE c = "0" -> 0 [] c = "1" -> 1 [] c = "2" -> 2 [] c = "3" -> 3 [] c = "4" -> 4
      [] c = "5" -> 5 [] c = "6" -> 6 [] c = "7" -> 7 [] c = "8" -> 8 [] c = "9" -> 9

\* number of ASCII digits of s from position i on
RECURSIVE DigitsLen(_, _)
DigitsLen(s, i) ==
    IF i <= Len(s) /\ IsAsciiDigit(s[i]) THEN 1 + DigitsLen(s, i + 1) ELSE 0

\* number of blanks of s from position i on
RECURSIVE BlanksLen(_, _)
BlanksLen(s, i) ==
    IF i <= Len(s) /\ s[i] = " " THEN 1 + BlanksLen(s, i + 1) ELSE 0

\* the value of the n digits of s that start at position i
RECURSIVE RefInt(_, _, _)
RefInt(s, i, n) ==
    IF n = 0 THEN 0 ELSE RefInt(s, i, n - 1) * 10 + DigitVal(s[i + n - 1])

RECURSIVE Pow10(_)
Pow10(k) == IF k = 0 THEN 1 ELSE 10 * Pow10(k - 1)

RefNone == [ok |-> FALSE, len |-> 0, num |-> 0, den |-> 1]

RefNumber(len, num, den) == [ok |-> TRUE, len |-> len, num |-> num, den |-> den]

\* rules 2 to 7 of the amount grammar on a trimmed span t: the length of the
\* numeric token and its value num/den; a fraction that is malformed or has
\* a zero denominator is no numeric token
RefAmount(t) ==
    IF t = <<>> THEN RefNone
    ELSE IF t[1] = VulgarHalf THEN RefNumber(1, 1, 2)
    ELSE LET w == DigitsLen(t, 1)
             b == BlanksLen(t, w + 1)
             n == DigitsLen(t, w + b + 1)
             m == DigitsLen(t, w + b + n + 2)
         IN  IF w = 0 THEN RefNone
             ELSE IF w < Len(t) /\ t[w + 1] = "/"
             THEN LET d == DigitsLen(t, w + 2)
                  IN  IF d = 0 \/ RefInt(t, w + 2, d) = 0 THEN RefNone
                      ELSE RefNumber(w + 1 + d, RefInt(t, 1, w), RefInt(t, w + 2, d))
             ELSE IF b > 0 /\ n > 0 /\ w + b + n < Len(t) /\ t[w + b + n + 1] = "/"
             THEN IF m = 0 \/ RefInt(t, w + b + n + 2, m) = 0 THEN RefNone
                  ELSE RefNumber(w + b + n + 1 + m,
                                 RefInt(t, 1, w) * RefInt(t, w + b + n + 2, m)
                                     + RefInt(t, w + b + 1, n),
                                 RefInt(t, w + b + n + 2, m))
             ELSE IF w < Len(t) /\ t[w + 1] \in {".", ","} /\ DigitsLen(t, w + 2) > 0
             THEN LET f == DigitsLen(t, w + 2)
                  IN  RefNumber(w + 1 + f,
                                RefInt(t, 1, w) * Pow10(f) + RefInt(t, w + 2, f),
                                Pow10(f))
             ELSE RefNumber(w, RefInt(t, 1, w), 1)

\* the unit field of an amount as text, "" for none
UnitText(u) == IF u = Nil THEN <<>> ELSE u

\* C11: when the amount text holds no valid numeric token (no leading
\* number, a zero denominator as in "1/0", a malformed fraction) the amount
\* parser reports no quantity and the whole span becomes the unit; the
\* failure never aborts the parse.
C11_NoNumberIsUnit ==
    (pc = "text_done" /\ TrimSpace(text) # <<>> /\ ~RefAmount(TrimSpace(text)).ok) =>
        /\ ~ParseAborted
        /\ out.fn = "parseAmount" =>
              out.val.factor = <<>> /\ UnitText(out.val.unit) = TrimSpace(text)
        /\ out.fn = "pkgParseAmount" =>
              out.val.Quantity = <<>> /\ out.val.Unit = TrimSpace(text)
        /\ out.fn = "parseYield" =>
              out.val.Amount = <<>> /\ out.val.Unit = TrimSpace(text)

\* the numeric literal at the start of the trimmed span t
RefLiteral(t) == SubSeq(t, 1, RefAmount(t).len)

\* the text after the numeric literal, trimmed
RefRest(t) == TrimSpace(SubSeq(t, RefAmount(t).len + 1, Len(t)))

\* t is one amount literal of the grammar, alone or followed by a unit that
\* is set off by a blank and is no further number
RefIsAmountLiteral(t) ==
    /\ RefAmount(t).ok
    /\ \/ RefAmount(t).len = Len(t)
       \/ /\ t[RefAmount(t).len + 1] = " "
          /\ RefRest(t) # <<>>
          /\ ~InNumberClass(RefRest(t)[1])
          /\ RefRest(t)[1] # VulgarHalf

SameValue(a, b) == a.ok /\ b.ok /\ a.num * b.den = b.num * a.den

\* C12: for an amount literal that is an integer, a decimal with '.' or ',',
\* a fraction N/M, a mixed number W N/M or one vulgar-fraction codepoint,
\* the amount parser takes exactly the literal as the numeric part, and the
\* quantity it holds has the value of the literal ("1 1/4" is 5/4, "1,5" is
\* 3/2, the one-half codepoint is 1/2).
C12_LiteralValue ==
    (Returned("parseAmount") /\ RefIsAmountLiteral(TrimSpace(text))) =>
        /\ out.val.factor = RefLiteral(TrimSpace(text))
        /\ SameValue(RefAmount(out.val.factor), RefAmount(TrimSpace(text)))
        /\ UnitText(out.val.unit) = RefRest(TrimSpace(text))

----------------------------------------------------------------------------
(* extension.JSONRenderer (src/unnamed/part_001, lines 768-1012): the data  *)
(* that Render encodes                                                      *)

YieldData(y) == [Factor |-> y.Factor, Unit |-> y.Unit]

AmountData(a) == [Factor |-> a.Factor, Unit |-> a.Unit]

\* JSONRenderer.buildIngredientData
buildIngredientData(ing) ==
    [Name   |-> ing.Name,
     Link   |-> ing.Link,
     Amount |-> IF ing.Amount # NilNode THEN AmountData(ing.Amount) ELSE NilNode]

\* the children of the given kind, in order
RECURSIVE ChildrenOfKind(_, _)
ChildrenOfKind(children, kind) ==
    IF children = <<>> THEN <<>>
    ELSE (IF Head(children).kind = kind THEN <<Head(children)>> ELSE <<>>)
             \o ChildrenOfKind(Tail(children), kind)

\* JSONRenderer.processIngredientList: the data appended to *ingredients
JSONProcessIngredientList(list) ==
    LET ings == ChildrenOfKind(list.children, "Ingredient")
    IN  [i \in 1..Len(ings) |-> buildIngredientData(ings[i])]

\* JSONRenderer.buildIngredientGroup
RECURSIVE buildIngredientGroup(_)
buildIngredientGroup(group) ==
    LET ings == ChildrenOfKind(group.children, "Ingredient")
        subs == ChildrenOfKind(group.children, "IngredientGroup")
    IN  [Title            |-> group.Title,
         Ingredients      |-> [i \in 1..Len(ings) |-> buildIngredientData(ings[i])],
         IngredientGroups |-> [i \in 1..Len(subs) |-> buildIngredientGroup(subs[i])]]

\* JSONRenderer.processMetadata: data.Tags and data.Yields; of the children
\* of a RecipeYields only those that are a Yield are appended
RECURSIVE JSONProcessMetadata(_, _)
JSONProcessMetadata(children, data) ==
    IF children = <<>> THEN data
    ELSE LET n  == Head(children)
             ys == IF n.kind = "RecipeYields" THEN ChildrenOfKind(n.children, "Yield")
                   ELSE <<>>
         IN  JSONProcessMetadata(Tail(children),
                 IF n.kind = "RecipeTags" THEN [data EXCEPT !.Tags = n.Tags]
                 ELSE IF n.kind = "RecipeYields"
                 THEN [data EXCEPT !.Yields =
                          @ \o [i \in 1..Len(ys) |-> YieldData(ys[i])]]
                 ELSE data)

EmptyRecipeData ==
    [Title |-> <<>>, Description |-> Nil, Tags |-> <<>>, Yields |-> <<>>,
     Ingredients |-> <<>>, IngredientGroups |-> <<>>, Instructions |-> Nil]

\* one turn of the loop of buildRecipeData
RecipeDataStep(data, n) ==
    IF n.kind = "RecipeMetadata"
    THEN JSONProcessMetadata(n.children,
             [data EXCEPT !.Title = n.Title,
                          !.Description = IF n.Description # <<>> THEN n.Description
                                          ELSE @])
    ELSE IF n.kind = "IngredientList"
    THEN [data EXCEPT !.Ingredients = @ \o JSONProcessIngredientList(n)]
    ELSE IF n.kind = "IngredientGroup"
    THEN [data EXCEPT !.IngredientGroups = Append(@, buildIngredientGroup(n))]
    ELSE IF n.kind = "Instructions"
    THEN [data EXCEPT !.Instructions = IF n.Content # <<>> THEN n.Content ELSE @]
    ELSE data

RECURSIVE RecipeDataLoop(_, _)
RecipeDataLoop(data, children) ==
    IF children = <<>> THEN data
    ELSE RecipeDataLoop(RecipeDataStep(data, Head(children)), Tail(children))

\* JSONRenderer.buildRecipeData
buildRecipeData(recipeNode) == RecipeDataLoop(EmptyRecipeData, recipeNode.children)

\* C13: every Amount keeps the verbatim source span as its original text
\* whichever branch of the amount parser ran, and the JSON export emits that
\* original text as the factor of every yield and of every ingredient amount.
C13_OriginalTextKept ==
    /\ (Returned("parseAmount") /\ text # <<>> /\ text = TrimSpace(text)) =>
          /\ \E f \in DOMAIN out.val : out.val[f] = text
          /\ LET a == NewAmount(out.val.factor, out.val.unit)
                 ing == NewIngredient(<<"x">>, Nil, a)
             IN  buildIngredientData(ing).Amount.Factor = text
    /\ Returned("parseYields") =>
          \A i \in 1..Len(out.val) : YieldData(out.val[i]).Factor = out.segs[i]
    /\ (Returned("pkgParseAmount") /\ text # <<>> /\ text = TrimSpace(text))
          => \E f \in DOMAIN out.val : out.val[f] = text

----------------------------------------------------------------------------
(* One ingredient line: documents "---" + a list of one item, both pipelines *)

MaxInlines == 3

\* the inline nodes the ingredient parsers tell apart
ItemInlineNodes ==
    { Emphasis(1, <<Text(<<"2", " ", "a">>)>>),
      Emphasis(1, <<Text(<<"3">>)>>),
      Emphasis(2, <<Text(<<"b">>)>>),
      Text(<<"x">>),
      Text(<<" ">>),
      Link(<<"d", "1">>, <<Text(<<"p">>)>>),
      Link(<<"d", "2">>, <<Text(<<"q">>)>>),
      Link(<<"d", "3">>, <<>>) }

\* "*2 1/4 cups* all-purpose flour" and "[pie crust](./pie-crust.md)"
FlourItem ==
    << Emphasis(1, <<Text(<<"2", " ", "1", "/", "4", " ", "c", "u", "p", "s">>)>>),
       Text(<<" ", "a", "l", "l", "-", "p", "u", "r", "p", "o", "s", "e", " ",
              "f", "l", "o", "u", "r">>) >>

PieCrustItem ==
    << Link(<<".", "/", "p", "i", "e", "-", "c", "r", "u", "s", "t", ".", "m", "d">>,
            <<Text(<<"p", "i", "e", " ", "c", "r", "u", "s", "t">>)>>) >>

ItemLines == SeqsUpTo(ItemInlineNodes, MaxInlines) \cup {FlourItem, PieCrustItem}

\* a tight list item holds a TextBlock, a loose one a Paragraph
ItemDocs ==
    { WithIds(<<ThematicBreak, List(<<ListItem(<<TextBlock(inl)>>)>>)>>) : inl \in ItemLines }
    \cup { WithIds(<<ThematicBreak, List(<<ListItem(<<Paragraph(inl)>>)>>)>>) :
              inl \in {FlourItem, PieCrustItem} }

ItemInit ==
    /\ doc \in ItemDocs
    /\ pipeline \in {"parser", "transformer"}
    /\ pc = IF pipeline = "parser" THEN "parse" ELSE "transform"
    /\ ParserStart
    /\ RenderStart
    /\ root = doc
    /\ recipe = NilNode
    /\ text = <<>>
    /\ out = NoOut

ItemNext ==
    \/ ParserList
    \/ ParserThematicBreak
    \/ ParserFinish
    \/ TransformerTransform
    \/ CallExtractRecipe

SpecItem == ItemInit /\ [][ItemNext]_vars

\* the inline content of the list item of the document
ItemLine == doc[2].children[1].children[1].children

\* the Ingredient nodes recipeParser put into the tree, ungrouped ones
ParsedItems ==
    LET lists == ChildrenOfKind(RecipeChildren, "IngredientList")
    IN  IF lists = <<>> THEN <<>> ELSE lists[1].children

\* the Ingredient nodes below the Ingredients node of recipeTransformer
TransformedItems ==
    LET w == ChildrenOfKind(RecipeChildren, "Ingredients")
    IN  IF w = <<>> THEN <<>> ELSE w[1].children

\* the rule of the specification for one line
RefHasAmount(inl) == inl # <<>> /\ inl[1].kind = "Emphasis" /\ inl[1].level = 1

RefAmountText(inl) == RefFlatten(inl[1])

RefAfterAmount(inl) == IF RefHasAmount(inl) THEN Tail(inl) ELSE inl

RefLinks(inl) == {i \in 1..Len(inl) : inl[i].kind = "Link"}

\* the remaining inline content, flattened and trimmed
RefPlainName(inl) ==
    TrimSpace(Concat([i \in 1..Len(RefAfterAmount(inl)) |->
                        RefFlatten(RefAfterAmount(inl)[i])]))

\* the amount text an Amount node stands for: factor, blank, unit
AmountNodeText(a) ==
    IF a.Unit = Nil THEN a.Factor ELSE a.Factor \o <<" ">> \o a.Unit

\* C14: an ingredient has an Amount iff the first inline node of its line is
\* a level-1 emphasis, and the Amount is parsed from the text of that run
\* alone; emphasis or strong runs further on are flattened into the Name and
\* never reach the Amount; "*2 1/4 cups* all-purpose flour" has the amount
\* text "2 1/4 cups", the Name "all-purpose flour" and no Link. In
\* parseIngredient and in recipeTransformer.parseIngredientContent.
C14_AmountIsLeadingEmphasis ==
    /\ ParserDone =>
          \A k \in 1..Len(ParsedItems) :
              LET ing == ParsedItems[k]
              IN  /\ (ing.Amount # NilNode) <=> RefHasAmount(ItemLine)
                  /\ RefHasAmount(ItemLine) =>
                        LET a == parseAmount(RefAmountText(ItemLine))
                        IN  ing.Amount = NewAmount(a.factor, a.unit)
                  /\ RefLinks(ItemLine) = {} => ing.Name = RefPlainName(ItemLine)
                  /\ ItemLine = FlourItem =>
                        /\ AmountNodeText(ing.Amount)
                              = <<"2", " ", "1", "/", "4", " ", "c", "u", "p", "s">>
                        /\ ing.Link = Nil
    /\ TransformerDone =>
          \A k \in 1..Len(TransformedItems) :
              LET ing == TransformedItems[k]
              IN  /\ (ing.Amount # <<>>) <=> RefHasAmount(ItemLine)
                  /\ RefHasAmount(ItemLine) => ing.Amount = TrimSpace(RefAmountText(ItemLine))
                  /\ RefLinks(ItemLine) = {} => ing.Name = RefPlainName(ItemLine)

\* the remaining inline nodes are plain text and links only
RefTextAndLinksOnly(inl) ==
    \A i \in 1..Len(RefAfterAmount(inl)) : RefAfterAmount(inl)[i].kind \in {"Text", "Link"}

\* C15: when the remaining inline nodes hold exactly one link, parseIngredient
\* sets Link to its destination and Name to the concatenation, in document
\* order, of the anchor text with the plain text next to it, trimmed; with
\* no link, Link is none and Name is all the remaining inline text;
\* "[pie crust](./pie-crust.md)" gives no Amount, Name "pie crust" and Link
\* "./pie-crust.md".
C15_LinkAndName ==
    ParserDone =>
        \A k \in 1..Len(ParsedItems) :
            LET ing   == ParsedItems[k]
                links == RefLinks(ItemLine)
            IN  /\ Cardinality(links) = 1 =>
                      /\ ing.Link = ItemLine[CHOOSE i \in links : TRUE].dest
                      /\ RefTextAndLinksOnly(ItemLine) => ing.Name = RefPlainName(ItemLine)
                /\ links = {} => (ing.Link = Nil /\ ing.Name = RefPlainName(ItemLine))
                /\ ItemLine = PieCrustItem =>
                      /\ ing.Amount = NilNode
                      /\ ing.Name = <<"p", "i", "e", " ", "c", "r", "u", "s", "t">>
                      /\ ing.Link = <<".", "/", "p", "i", "e", "-", "c", "r", "u", "s", "t",
                                      ".", "m", "d">>

\* C16: every Ingredient of a parsed Recipe has a Name that is not empty
\* after trimming; a list item whose name is empty or blank is dropped with
\* a Warning - in parseIngredient / parseIngredients and in
\* recipeTransformer.processIngredientList (and so in ExtractRecipe).
C16_NameNotEmpty ==
    /\ ParserDone =>
          /\ \A k \in 1..Len(ParsedItems) : TrimSpace(ParsedItems[k].Name) # <<>>
          /\ ParsedItems = <<>> => Len(Warnings) > 0
    /\ TransformerDone =>
          /\ \A k \in 1..Len(TransformedItems) : TrimSpace(TransformedItems[k].Name) # <<>>
          /\ TransformedItems = <<>> => Len(Warnings) > 0
    /\ Extracted =>
          \A k \in 1..Len(recipe.Ingredients) : TrimSpace(recipe.Ingredients[k].Name) # <<>>

----------------------------------------------------------------------------
(* The ingredients section: documents "# T", "---" and a sequence of        *)
(* headings and lists, both pipelines                                       *)

MaxGroupBlocks == 6

DigitChar(i) == <<"1", "2", "3", "4", "5", "6", "7", "8", "9">>[i]

\* the heading of position i: "# Gi" with the given level
GroupHeading(level, i) == Heading(level, <<Text(<<"G", DigitChar(i)>>)>>)

\* the list of position i: "- *2* ai" and "- bi"
GroupList(i) ==
    List(<< ListItem(<<TextBlock(<<Emphasis(1, <<Text(<<"2">>)>>),
                                   Text(<<" ", "a", DigitChar(i)>>)>>)>>),
            ListItem(<<TextBlock(<<Text(<<"b", DigitChar(i)>>)>>)>>) >>)

GroupKinds == {"h1", "h2", "h3", "list"}

GroupBlock(kind, i) ==
    CASE kind = "h1" -> GroupHeading(1, i)
      [] kind = "h2" -> GroupHeading(2, i)
      [] kind = "h3" -> GroupHeading(3, i)
      [] kind = "list" -> GroupList(i)

\* [list, h2, list, h3, list, h2, list]
SampleGroupKinds == <<"list", "h2", "list", "h3", "list", "h2", "list">>

GroupDoc(kinds) ==
    WithIds(<<Heading(1, <<Text(<<"T">>)>>), ThematicBreak>>
            \o [i \in 1..Len(kinds) |-> GroupBlock(kinds[i], i)])

GroupInit ==
    /\ doc \in {GroupDoc(kinds) :
                  kinds \in SeqsUpTo(GroupKinds, MaxGroupBlocks) \cup {SampleGroupKinds}}
    /\ pipeline \in {"parser", "transformer"}
    /\ pc = IF pipeline = "parser" THEN "parse" ELSE "transform"
    /\ ParserStart
    /\ RenderStart
    /\ root = doc
    /\ recipe = NilNode
    /\ text = <<>>
    /\ out = NoOut

GroupNext ==
    \/ ParserHeading
    \/ ParserList
    \/ ParserThematicBreak
    \/ ParserFinish
    \/ TransformerTransform
    \/ CallExtractRecipe

SpecGroup == GroupInit /\ [][GroupNext]_vars

\* the open-group stack of the specification: positions of headings of the
\* ingredients section (the blocks after "# T" and "---")
RECURSIVE RefPop(_, _, _)
RefPop(d, stack, level) ==
    IF stack = <<>> THEN <<>>
    ELSE IF d[stack[Len(stack)]].level >= level
    THEN RefPop(d, SubSeq(stack, 1, Len(stack) - 1), level)
    ELSE stack

\* the stack after the blocks 1..i
RECURSIVE RefOpen(_, _)
RefOpen(d, i) ==
    IF i < 3 THEN <<>>
    ELSE IF d[i].kind = "Heading"
    THEN Append(RefPop(d, RefOpen(d, i - 1), d[i].level), i)
    ELSE RefOpen(d, i - 1)

RefTopName(d, stack) == IF stack = <<>> THEN <<>> ELSE RefFlatten(d[stack[Len(stack)]])

RefGroupPositions(d) == {i \in 3..Len(d) : d[i].kind = "Heading"}

RefListPositions(d) == {i \in 3..Len(d) : d[i].kind = "List"}

\* <<name of the parent group ("" for the top level), name of the group>>
RefGroupEdges(d) ==
    { <<RefTopName(d, RefPop(d, RefOpen(d, i - 1), d[i].level)), RefFlatten(d[i])>> :
        i \in RefGroupPositions(d) }

\* <<name of the owning group ("" for ungrouped), name of the ingredient>>
RefItemEdges(d) ==
    UNION { { <<RefTopName(d, RefOpen(d, i - 1)),
                RefPlainName(d[i].children[k].children[1].children)>> :
                k \in 1..Len(d[i].children) } : i \in RefListPositions(d) }

\* the name of a group node: Title in the extension, Name in pkg/ast
GroupNameOf(n) == IF "Title" \in DOMAIN n THEN n.Title ELSE n.Name

\* the group edges of a tree of IngredientList / Ingredients /
\* IngredientGroup / Ingredient nodes
RECURSIVE TreeGroupEdges(_, _)
TreeGroupEdges(children, parent) ==
    UNION { IF children[i].kind = "IngredientGroup"
            THEN {<<parent, GroupNameOf(children[i])>>}
                     \cup TreeGroupEdges(children[i].children, GroupNameOf(children[i]))
            ELSE IF children[i].kind \in {"IngredientList", "Ingredients"}
            THEN TreeGroupEdges(children[i].children, parent)
            ELSE {} : i \in 1..Len(children) }

RECURSIVE TreeItemEdges(_, _)
TreeItemEdges(children, parent) ==
    UNION { IF children[i].kind = "IngredientGroup"
            THEN TreeItemEdges(children[i].children, GroupNameOf(children[i]))
            ELSE IF children[i].kind \in {"IngredientList", "Ingredients"}
            THEN TreeItemEdges(children[i].children, parent)
            ELSE IF children[i].kind = "Ingredient"
            THEN {<<parent, children[i].Name>>}
            ELSE {} : i \in 1..Len(children) }

\* number of group nodes in the tree
RECURSIVE CountGroups(_)
CountGroups(children) ==
    IF children = <<>> THEN 0
    ELSE (IF Head(children).kind = "IngredientGroup"
          THEN 1 + CountGroups(Head(children).children)
          ELSE IF Head(children).kind \in {"IngredientList", "Ingredients"}
          THEN CountGroups(Head(children).children)
          ELSE 0) + CountGroups(Tail(children))

\* C17: a heading of level L creates exactly one group, child of the nearest
\* preceding open group of level < L, top-level when there is none; a
\* heading of the same or a shallower level closes the open group. So
\* [list, h2, list, h3, list, h2, list] gives ungrouped ingredients, a
\* level-2 group with its ingredients and a nested level-3 group, and a
\* second, sibling level-2 group - in recipeParser and in recipeTransformer.
C17_GroupNesting ==
    (ParserDone \/ TransformerDone) =>
        /\ CountGroups(RecipeChildren) = Cardinality(RefGroupPositions(doc))
        /\ TreeGroupEdges(RecipeChildren, <<>>) = RefGroupEdges(doc)
        /\ doc = GroupDoc(SampleGroupKinds) =>
              TreeItemEdges(RecipeChildren, <<>>) = RefItemEdges(doc)

\* the positions of the headings of the ingredients section, in order
RefGroupHeadings(d) ==
    SelectSeq([i \in 1..Len(d) |-> i], LAMBDA i : i >= 3 /\ d[i].kind = "Heading")

\* in the built tree every group below a group is of a deeper level
RECURSIVE TreeLevelsDeeper(_, _)
TreeLevelsDeeper(children, parentLevel) ==
    \A i \in 1..Len(children) :
        children[i].kind = "IngredientGroup" =>
            /\ children[i].Level > parentLevel
            /\ TreeLevelsDeeper(children[i].children, children[i].Level)

\* C18: in the tree recipeParser.Transform builds, at every point of the
\* walk and in the finished Recipe, a group that is a child of a group has a
\* Level strictly greater than its parent's, and the Level of every group
\* is the level (1..6) of the heading that created it.
C18_ChildLevelDeeper ==
    pipeline = "parser" =>
        /\ Len(groups) <= Len(RefGroupHeadings(doc))
        /\ \A g \in 1..Len(groups) :
              /\ groups[g].Level \in 1..6
              /\ groups[g].Level = doc[RefGroupHeadings(doc)[g]].level
              /\ \A k \in 1..Len(groups[g].children) :
                    groups[g].children[k].kind = "IngredientGroup" =>
                        groups[groups[g].children[k].ref].Level > groups[g].Level
        /\ ParserDone =>
              /\ CountGroups(RecipeChildren) = Len(groups)
              /\ TreeLevelsDeeper(RecipeChildren, 0)

\* a finished tree with a group nested two levels deep and a sibling group
\* that closed an open one
C18_Witness ==
    /\ ParserDone
    /\ Len(topLevelGroups) >= 2
    /\ \E g \in 1..Len(groups) : \E k \in 1..Len(groups[g].children) :
          /\ groups[g].children[k].kind = "IngredientGroup"
          /\ \E j \in 1..Len(groups[groups[g].children[k].ref].children) :
                groups[groups[g].children[k].ref].children[j].kind = "IngredientGroup"

\* <<owning group, ingredient name>> of the items of the lists of the
\* ingredients section, in document and list order
RECURSIVE RefItemSeq(_, _)
RefItemSeq(d, i) ==
    IF i < 3 THEN <<>>
    ELSE RefItemSeq(d, i - 1) \o
         (IF d[i].kind = "List"
          THEN [k \in 1..Len(d[i].children) |->
                  <<RefTopName(d, RefOpen(d, i - 1)),
                    RefPlainName(d[i].children[k].children[1].children)>>]
          ELSE <<>>)

\* the names of the top-level groups, in the order of their headings
RECURSIVE RefTopLevelSeq(_, _)
RefTopLevelSeq(d, i) ==
    IF i < 3 THEN <<>>
    ELSE RefTopLevelSeq(d, i - 1) \o
         (IF d[i].kind = "Heading" /\ RefPop(d, RefOpen(d, i - 1), d[i].level) = <<>>
          THEN <<RefFlatten(d[i])>> ELSE <<>>)

\* <<owning group, ingredient name>> of the Ingredient nodes of a tree, in
\* depth-first order
RECURSIVE TreeItemSeq(_, _)
TreeItemSeq(children, parent) ==
    Concat([i \in 1..Len(children) |->
              IF children[i].kind = "IngredientGroup"
              THEN TreeItemSeq(children[i].children, GroupNameOf(children[i]))
              ELSE IF children[i].kind \in {"IngredientList", "Ingredients"}
              THEN TreeItemSeq(children[i].children, parent)
              ELSE IF children[i].kind = "Ingredient"
              THEN << <<parent, children[i].Name>> >>
              ELSE <<>>])

\* the same of the exported IngredientGroup data
RECURSIVE ExportGroupItemSeq(_)
ExportGroupItemSeq(g) ==
    [i \in 1..Len(g.Ingredients) |-> <<g.Title, g.Ingredients[i].Name>>]
    \o Concat([i \in 1..Len(g.IngredientGroups) |->
                 ExportGroupItemSeq(g.IngredientGroups[i])])

\* and of the exported RecipeData
ExportItemSeq(data) ==
    [i \in 1..Len(data.Ingredients) |-> << <<>>, data.Ingredients[i].Name>>]
    \o Concat([i \in 1..Len(data.IngredientGroups) |->
                 ExportGroupItemSeq(data.IngredientGroups[i])])

\* C19: the items of every list of the ingredients section are appended, in
\* list order, to the group on top of the open-group stack, or to the
\* top-level ungrouped ingredients when the stack is empty; every parsed
\* ingredient is exactly once in the tree and in the JSON export, and the
\* top-level groups keep the order of their headings.
C19_EveryIngredientOnce ==
    ParserDone =>
        /\ TreeItemSeq(RecipeChildren, <<>>) = RefItemSeq(doc, Len(doc))
        /\ ExportItemSeq(buildRecipeData(root[1])) = RefItemSeq(doc, Len(doc))
        /\ [i \in 1..Len(buildRecipeData(root[1]).IngredientGroups) |->
               buildRecipeData(root[1]).IngredientGroups[i].Title]
             = RefTopLevelSeq(doc, Len(doc))

----------------------------------------------------------------------------
(* renderer.MarkdownRenderer (src/unnamed/part_002, lines 378-494) and the  *)
(* round trip render -> read -> Transform -> ExtractRecipe                  *)

\* renderer.extractText: Text and String nodes
RECURSIVE rendererExtractText(_)
rendererExtractText(node) ==
    IF node.kind \in {"Text", "String"} THEN node.value
    ELSE Concat([i \in 1..Len(node.children) |-> rendererExtractText(node.children[i])])

\* fmt.Fprintf(w, "# %s\n\n", extractText(node, source))
MarkdownRenderTitle(node) ==
    <<"#", " ">> \o rendererExtractText(node) \o <<"\n", "\n">>

\* the loop of renderDescription and of renderInstructions over the children
MarkdownRenderParagraphs(node) ==
    Concat([i \in 1..Len(node.children) |->
              LET t == TrimSpace(rendererExtractText(node.children[i]))
              IN  IF t # <<>> THEN t \o <<"\n", "\n">> ELSE <<>>])

MarkdownRenderDescription(node) == MarkdownRenderParagraphs(node)

\* fmt.Fprintf(w, "*%s*\n\n", text)
MarkdownRenderTags(node) ==
    <<"*">> \o rendererExtractText(node) \o <<"*", "\n", "\n">>

\* fmt.Fprintf(w, "**%s**\n\n", text)
MarkdownRenderYields(node) ==
    <<"*", "*">> \o rendererExtractText(node) \o <<"*", "*", "\n", "\n">>

MarkdownRenderIngredient(ing) ==
    <<"-", " ">>
    \o (IF ing.Amount # <<>> THEN <<"*">> \o ing.Amount \o <<"*", " ">> ELSE <<>>)
    \o ing.Name \o <<"\n">>

\* fmt.Fprintf(w, "\n## %s\n\n", group.Name): the heading is always "##"
MarkdownRenderIngredientGroup(group) ==
    <<"\n", "#", "#", " ">> \o group.Name \o <<"\n", "\n">>

MarkdownRenderInstructions(node) ==
    <<"-", "-", "-", "\n", "\n">> \o MarkdownRenderParagraphs(node)

\* the walk of the renderer over the tree with the functions RegisterFuncs
\* registers; a node of any other kind writes nothing and is walked into
RECURSIVE MarkdownRender(_)
MarkdownRender(node) ==
    LET below == Concat([i \in 1..Len(node.children) |-> MarkdownRender(node.children[i])])
    IN  CASE node.kind = "Recipe"          -> below
          [] node.kind = "Title"           -> MarkdownRenderTitle(node)
          [] node.kind = "Description"     -> MarkdownRenderDescription(node)
          [] node.kind = "Tags"            -> MarkdownRenderTags(node)
          [] node.kind = "Yields"          -> MarkdownRenderYields(node)
          [] node.kind = "Ingredients"     ->
                 <<"-", "-", "-", "\n", "\n">> \o below \o <<"\n">>
          [] node.kind = "Ingredient"      -> MarkdownRenderIngredient(node)
          [] node.kind = "IngredientGroup" -> MarkdownRenderIngredientGroup(node) \o below
          [] node.kind = "Instructions"    -> MarkdownRenderInstructions(node)
          [] OTHER -> IF "children" \in DOMAIN node THEN below ELSE <<>>

\* Reading Markdown: goldmark's CommonMark reader, which the program calls
\* through goldmark.Markdown.Convert and parser.Parse.  Block structure
\* first (lines, containers, leaf blocks), then the inline content of the
\* paragraphs and headings.


\* s[i], and "" outside the string
At(s, i) == IF i \in 1..Len(s) THEN s[i] ELSE ""

\* the first index from i on whose character is not in set
SkipWhile(s, i, set) ==
    Min({j \in i..Len(s) : s[j] \notin set} \cup {Max({i, Len(s) + 1})})

\* the first index from i on whose character is in set, past the end without one
FindChar(s, i, set) ==
    Min({j \in i..Len(s) : s[j] \in set} \cup {Max({i, Len(s) + 1})})

\* the length of the run of c that starts at i
RunLen(s, i, c) == SkipWhile(s, i, {c}) - i

\* the first index from i on where pat occurs in s, 0 without one
FindSub(s, i, pat) ==
    LET at == {j \in i..(Len(s) - Len(pat) + 1) : SubSeq(s, j, j + Len(pat) - 1) = pat}
    IN  IF at = {} THEN 0 ELSE Min(at)

HasPrefix(s, i, pat) == SubSeq(s, i, Min({Len(s), i + Len(pat) - 1})) = pat

UpperLetters ==
    <<"A", "B", "C", "D", "E", "F", "G", "H", "I", "J", "K", "L", "M",
      "N", "O", "P", "Q", "R", "S", "T", "U", "V", "W", "X", "Y", "Z">>

LowerLetters ==
    <<"a", "b", "c", "d", "e", "f", "g", "h", "i", "j", "k", "l", "m",
      "n", "o", "p", "q", "r", "s", "t", "u", "v", "w", "x", "y", "z">>

Letters == {UpperLetters[i] : i \in 1..26} \cup {LowerLetters[i] : i \in 1..26}

ToLower(s) ==
    [i \in 1..Len(s) |->
        IF \E k \in 1..26 : UpperLetters[k] = s[i]
        THEN LowerLetters[CHOOSE k \in 1..26 : UpperLetters[k] = s[i]]
        ELSE s[i]]

Apostrophe == "'"

\* GRAVE ACCENT, the backtick
BackTick == "U+0060"

AsciiPunct ==
    {"!", "\"", "#", "$", "%", "&", Apostrophe, "(", ")", "*", "+", ",", "-", ".", "/",
     ":", ";", "<", "=", ">", "?", "@", "[", "\\", "]", "^", "_", BackTick, "{", "|",
     "}", "~"}

Blanks == {" ", "\t"}

TrimBlanksLeft(s)  == SubSeq(s, SkipWhile(s, 1, Blanks), Len(s))

TrimBlanksRight(s) == SubSeq(s, 1, Max({j \in 1..Len(s) : s[j] \notin Blanks} \cup {0}))

TrimBlanks(s) == TrimBlanksRight(TrimBlanksLeft(s))

Spaces(n) == [i \in 1..n |-> " "]

\* the mark of a line that continues a paragraph lazily: the line does not
\* carry the prefix of its container and opens no block
LazyMark == "lazy"

DropLazy(t) == SubSeq(t, SkipWhile(t, 1, {LazyMark}), Len(t))

\* the lines of the text as written: the pieces the line endings end
Lines(md) ==
    LET cuts == {0} \cup {i \in 1..Len(md) : md[i] = "\n"}
                    \cup (IF md # <<>> /\ md[Len(md)] # "\n" THEN {Len(md) + 1} ELSE {})
        cut(k) == CHOOSE c \in cuts : Cardinality({d \in cuts : d < c}) = k
        piece(k) == SubSeq(md, cut(k - 1) + 1, cut(k) - 1)
        noCR(t) == IF t # <<>> /\ t[Len(t)] = "\r" THEN SubSeq(t, 1, Len(t) - 1) ELSE t
    IN  [k \in 1..(Cardinality(cuts) - 1) |-> noCR(piece(k))]

\* A tab stands for the columns up to the next tab stop of 4, so the width
\* of the blanks of a line depends on the column the line starts at.  A
\* line that is what a container leaves of a line of the text, that does
\* not start at a tab stop and that has a tab in front of its text carries
\* the column (modulo 4) as a mark in front.
ColMarks == <<"col1", "col2", "col3">>

\* the column, modulo 4, at which the line starts
Origin(t) ==
    IF \E k \in 1..3 : At(t, 1) = ColMarks[k]
    THEN CHOOSE k \in 1..3 : t[1] = ColMarks[k]
    ELSE 0

\* the characters of the line
Chars(t) == IF Origin(t) > 0 THEN Tail(t) ELSE t

\* the column after the character c at column col
ColStep(col, c) == IF c = "\t" THEN col + 4 - (col % 4) ELSE col + 1

\* the column after the first j characters of s, the first at column col
RECURSIVE ColAfter(_, _, _)
ColAfter(s, j, col) == IF j = 0 THEN col ELSE ColStep(ColAfter(s, j - 1, col), s[j])

\* the characters s as a line that starts at column col
Marked(col, s) ==
    IF col % 4 = 0 \/ \A j \in 1..(SkipWhile(s, 1, Blanks) - 1) : s[j] # "\t" THEN s
    ELSE <<ColMarks[col % 4]>> \o s

\* the index of the first character of the line that is no blank
First(t) == SkipWhile(Chars(t), 1, Blanks)

\* the columns of indentation of the line
Indent(t) == ColAfter(Chars(t), First(t) - 1, Origin(t)) - Origin(t)

\* the line without its indentation
Body(t) == SubSeq(Chars(t), First(t), Len(Chars(t)))

IsBlank(t) == First(t) > Len(Chars(t))

\* the line without its first n columns of indentation: what is left of a
\* tab that the columns end in are spaces
Unindent(t, n) ==
    LET s   == Chars(t)
        o   == Origin(t)
        f   == First(t) - 1
        j   == Min({m \in 0..f : ColAfter(s, m, o) - o >= n} \cup {f})
        w   == ColAfter(s, j, o) - o
        pad == IF w > n THEN w - n ELSE 0
    IN  Marked(o + Min({w, n}), Spaces(pad) \o SubSeq(s, j + 1, Len(s)))

\* a thematic break: three or more of one of * - _ with blanks between
IsThematicBreak(t) ==
    LET b == Body(t)
        c == At(b, 1)
    IN  /\ Indent(t) <= 3
        /\ c \in {"*", "-", "_"}
        /\ \A j \in 1..Len(b) : b[j] \in {c, " ", "\t"}
        /\ Cardinality({j \in 1..Len(b) : b[j] = c}) >= 3

\* the level of an ATX heading line, 0 for any other line
AtxLevel(t) ==
    LET b == Body(t)
        n == RunLen(b, 1, "#")
    IN  IF Indent(t) <= 3 /\ n \in 1..6 /\ At(b, n + 1) \in {"", " ", "\t"} THEN n ELSE 0

\* the content of an ATX heading line: without the opening sequence, the
\* blanks around and the closing sequence of # a blank precedes
AtxContent(t) ==
    LET body == TrimBlanks(SubSeq(Body(t), AtxLevel(t) + 1, Len(Body(t))))
        h    == Max({j \in 1..Len(body) : body[j] # "#"} \cup {0}) + 1
    IN  IF h > Len(body) THEN body
        ELSE IF h = 1 THEN <<>>
        ELSE IF body[h - 1] \in Blanks THEN TrimBlanksRight(SubSeq(body, 1, h - 1))
        ELSE body

\* the level of the heading a setext underline makes, 0 for any other line
SetextLevel(t) ==
    LET r == TrimBlanksRight(Body(t))
        c == At(r, 1)
    IN  IF Indent(t) <= 3 /\ c \in {"=", "-"} /\ \A j \in 1..Len(r) : r[j] = c
        THEN (IF c = "=" THEN 1 ELSE 2)
        ELSE 0

\* the length of the code fence that opens at the line, 0 for any other line
FenceLen(t) ==
    LET b == Body(t)
        c == At(b, 1)
        n == RunLen(b, 1, c)
    IN  IF /\ Indent(t) <= 3
           /\ c \in {BackTick, "~"}
           /\ n >= 3
           /\ (c = BackTick => \A j \in (n + 1)..Len(b) : b[j] # BackTick)
        THEN n ELSE 0

ClosesFence(t, c, n) ==
    LET b == Body(t)
        m == RunLen(b, 1, c)
    IN  Indent(t) <= 3 /\ m >= n /\ IsBlank(SubSeq(b, m + 1, Len(b)))

IsQuoteLine(t) == Indent(t) <= 3 /\ At(Body(t), 1) = ">"

\* the line without the block quote marker and the one column of blank
\* after it
QuoteStrip(t) ==
    Unindent(Marked(Origin(t) + Indent(t) + 1, SubSeq(Body(t), 2, Len(Body(t)))), 1)

\* the index in the line without its indentation of the last character of
\* the list marker the line starts with, 0 without one: a bullet - + *, or
\* up to 9 digits and . or )
MarkerEnd(t) ==
    LET b == Body(t)
        d == SkipWhile(b, 1, AsciiDigits) - 1
        e == IF At(b, 1) \in {"-", "+", "*"} THEN 1
             ELSE IF d \in 1..9 /\ At(b, d + 1) \in {".", ")"} THEN d + 1
             ELSE 0
    IN  IF Indent(t) <= 3 /\ e > 0 /\ At(b, e + 1) \in {"", " ", "\t"} THEN e ELSE 0

\* the bullet character, or the delimiter of an ordered list
MarkerType(t) == Body(t)[MarkerEnd(t)]

\* an ordered list marker whose number is 1, or a bullet
MarkerStartsAtOne(t) ==
    LET b == Body(t)
        e == MarkerEnd(t)
    IN  \/ b[e] \in {"-", "+", "*"}
        \/ b[e - 1] = "1" /\ \A j \in 1..(e - 2) : b[j] = "0"

ItemRestBlank(t) == IsBlank(SubSeq(Body(t), MarkerEnd(t) + 1, Len(Body(t))))

\* what follows the list marker in the line
AfterMarker(t) ==
    Marked(Origin(t) + Indent(t) + MarkerEnd(t),
           SubSeq(Body(t), MarkerEnd(t) + 1, Len(Body(t))))

\* the width of a list item in columns: the indentation, the marker and
\* the 1 to 4 columns of blanks after it (one column when the line ends
\* there or indented code follows)
ItemWidth(t) ==
    LET s == Indent(AfterMarker(t))
    IN  IF ItemRestBlank(t) \/ s >= 5 THEN Indent(t) + MarkerEnd(t) + 1
        ELSE Indent(t) + MarkerEnd(t) + s

\* the names of the tags that open an HTML block of kind 6
BlockTags ==
    {<<"a", "d", "d", "r", "e", "s", "s">>, <<"a", "r", "t", "i", "c", "l", "e">>,
     <<"a", "s", "i", "d", "e">>, <<"b", "a", "s", "e">>,
     <<"b", "a", "s", "e", "f", "o", "n", "t">>,
     <<"b", "l", "o", "c", "k", "q", "u", "o", "t", "e">>, <<"b", "o", "d", "y">>,
     <<"c", "a", "p", "t", "i", "o", "n">>, <<"c", "e", "n", "t", "e", "r">>,
     <<"c", "o", "l">>, <<"c", "o", "l", "g", "r", "o", "u", "p">>, <<"d", "d">>,
     <<"d", "e", "t", "a", "i", "l", "s">>, <<"d", "i", "a", "l", "o", "g">>,
     <<"d", "i", "r">>, <<"d", "i", "v">>, <<"d", "l">>, <<"d", "t">>,
     <<"f", "i", "e", "l", "d", "s", "e", "t">>,
     <<"f", "i", "g", "c", "a", "p", "t", "i", "o", "n">>,
     <<"f", "i", "g", "u", "r", "e">>, <<"f", "o", "o", "t", "e", "r">>,
     <<"f", "o", "r", "m">>, <<"f", "r", "a", "m", "e">>,
     <<"f", "r", "a", "m", "e", "s", "e", "t">>, <<"h", "1">>, <<"h", "2">>,
     <<"h", "3">>, <<"h", "4">>, <<"h", "5">>, <<"h", "6">>, <<"h", "e", "a", "d">>,
     <<"h", "e", "a", "d", "e", "r">>, <<"h", "r">>, <<"h", "t", "m", "l">>,
     <<"i", "f", "r", "a", "m", "e">>, <<"l", "e", "g", "e", "n", "d">>, <<"l", "i">>,
     <<"l", "i", "n", "k">>, <<"m", "a", "i", "n">>, <<"m", "e", "n", "u">>,
     <<"m", "e", "n", "u", "i", "t", "e", "m">>, <<"n", "a", "v">>,
     <<"n", "o", "f", "r", "a", "m", "e", "s">>, <<"o", "l">>,
     <<"o", "p", "t", "g", "r", "o", "u", "p">>, <<"o", "p", "t", "i", "o", "n">>,
     <<"p">>, <<"p", "a", "r", "a", "m">>, <<"s", "e", "c", "t", "i", "o", "n">>,
     <<"s", "u", "m", "m", "a", "r", "y">>, <<"t", "a", "b", "l", "e">>,
     <<"t", "b", "o", "d", "y">>, <<"t", "d">>, <<"t", "f", "o", "o", "t">>,
     <<"t", "h">>, <<"t", "h", "e", "a", "d">>, <<"t", "i", "t", "l", "e">>,
     <<"t", "r">>, <<"t", "r", "a", "c", "k">>, <<"u", "l">>}

\* the names of the tags that open an HTML block of kind 1
VerbatimTags ==
    {<<"s", "c", "r", "i", "p", "t">>, <<"p", "r", "e">>, <<"s", "t", "y", "l", "e">>,
     <<"t", "e", "x", "t", "a", "r", "e", "a">>}

TagNameChars == Letters \cup AsciiDigits \cup {"-"}

HtmlSpace == {" ", "\t", "\n"}

\* the index of the ">" that ends the attributes and the tag from j on, 0
\* when what follows is no attribute list
RECURSIVE AttrsEnd(_, _)
AttrsEnd(s, j) ==
    LET k  == SkipWhile(s, j, HtmlSpace)
        m  == SkipWhile(s, k + 1, Letters \cup AsciiDigits \cup {"_", ".", ":", "-"})
        m2 == SkipWhile(s, m, HtmlSpace)
        v  == SkipWhile(s, m2 + 1, HtmlSpace)
        q  == FindChar(s, v + 1, {At(s, v)})
        u  == FindChar(s, v, HtmlSpace \cup {"\"", Apostrophe, "=", "<", ">", BackTick})
    IN  IF At(s, k) = ">" THEN k
        ELSE IF At(s, k) = "/" /\ At(s, k + 1) = ">" THEN k + 1
        ELSE IF k = j \/ At(s, k) \notin Letters \cup {"_", ":"} THEN 0
        ELSE IF At(s, m2) # "=" THEN AttrsEnd(s, m)
        ELSE IF At(s, v) \in {"\"", Apostrophe}
             THEN (IF q <= Len(s) THEN AttrsEnd(s, q + 1) ELSE 0)
        ELSE IF u > v THEN AttrsEnd(s, u)
        ELSE 0

\* the index of the ">" of the open or closing tag that starts at i, 0
\* when none starts there
TagEnd(s, i) ==
    LET closing == At(s, i + 1) = "/"
        n == IF closing THEN i + 2 ELSE i + 1
        e == SkipWhile(s, n + 1, TagNameChars)
        g == SkipWhile(s, e, HtmlSpace)
    IN  IF At(s, i) # "<" \/ At(s, n) \notin Letters THEN 0
        ELSE IF closing THEN (IF At(s, g) = ">" THEN g ELSE 0)
        ELSE AttrsEnd(s, e)

\* the name of the tag that starts at i, in lower case
TagName(s, i) ==
    LET n == IF At(s, i + 1) = "/" THEN i + 2 ELSE i + 1
    IN  ToLower(SubSeq(s, n, SkipWhile(s, n, TagNameChars) - 1))

\* the kind (1 to 7) of the HTML block the line opens, 0 for any other line
HtmlBlockKind(t) ==
    LET b    == Body(t)
        name == TagName(b, 1)
        e    == 1 + Len(name) + (IF At(b, 2) = "/" THEN 2 ELSE 1)
        end  == TagEnd(b, 1)
    IN  IF Indent(t) > 3 \/ At(b, 1) # "<" THEN 0
        ELSE IF /\ At(b, 2) # "/"
                /\ name \in VerbatimTags
                /\ At(b, e) \in {"", " ", "\t", ">"} THEN 1
        ELSE IF HasPrefix(b, 1, <<"<", "!", "-", "-">>) THEN 2
        ELSE IF HasPrefix(b, 1, <<"<", "?">>) THEN 3
        ELSE IF At(b, 2) = "!" /\ At(b, 3) \in Letters THEN 4
        ELSE IF HasPrefix(b, 1, <<"<", "!", "[", "C", "D", "A", "T", "A", "[">>) THEN 5
        ELSE IF /\ name \in BlockTags
                /\ \/ At(b, e) \in {"", " ", "\t", ">"}
                   \/ At(b, e) = "/" /\ At(b, e + 1) = ">" THEN 6
        ELSE IF /\ end > 0
                /\ name \notin VerbatimTags
                /\ IsBlank(SubSeq(b, end + 1, Len(b))) THEN 7
        ELSE 0

\* the line holds the end condition of the HTML block of the kind
EndsHtmlBlock(t, kind) ==
    CASE kind = 1 -> \E n \in VerbatimTags :
                         FindSub(ToLower(t), 1, <<"<", "/">> \o n \o <<">">>) > 0
      [] kind = 2 -> FindSub(t, 1, <<"-", "-", ">">>) > 0
      [] kind = 3 -> FindSub(t, 1, <<"?", ">">>) > 0
      [] kind = 4 -> FindSub(t, 1, <<">">>) > 0
      [] kind = 5 -> FindSub(t, 1, <<"]", "]", ">">>) > 0
      [] OTHER    -> FALSE

\* the line opens a block where a paragraph is open one container further in
StartsBlock(t) ==
    /\ Indent(t) <= 3
    /\ \/ IsThematicBreak(t)
       \/ AtxLevel(t) > 0
       \/ FenceLen(t) > 0
       \/ IsQuoteLine(t)
       \/ MarkerEnd(t) > 0
       \/ HtmlBlockKind(t) \in 1..6

\* the line ends the paragraph before it and opens a block of its own
InterruptsParagraph(t) ==
    /\ Indent(t) <= 3
    /\ \/ IsThematicBreak(t)
       \/ AtxLevel(t) > 0
       \/ FenceLen(t) > 0
       \/ IsQuoteLine(t)
       \/ MarkerEnd(t) > 0 /\ ~ItemRestBlank(t) /\ MarkerStartsAtOne(t)
       \/ HtmlBlockKind(t) \in 1..6

\* the kind of block a line opens where no paragraph is open
LineKind(t) ==
    IF IsBlank(t) THEN "blank"
    ELSE IF Indent(t) >= 4 THEN "code"
    ELSE IF FenceLen(t) > 0 THEN "fence"
    ELSE IF AtxLevel(t) > 0 THEN "atx"
    ELSE IF IsThematicBreak(t) THEN "break"
    ELSE IF IsQuoteLine(t) THEN "quote"
    ELSE IF HtmlBlockKind(t) > 0 THEN "html"
    ELSE IF MarkerEnd(t) > 0 THEN "item"
    ELSE "text"

\* the end of the destination of a link that starts at j: the first blank,
\* line ending or parenthesis that closes nothing
RECURSIVE DestEnd(_, _, _)
DestEnd(s, j, depth) ==
    IF j > Len(s) \/ s[j] \in HtmlSpace THEN j
    ELSE IF s[j] = "\\" /\ At(s, j + 1) \in AsciiPunct THEN DestEnd(s, j + 2, depth)
    ELSE IF s[j] = "(" THEN DestEnd(s, j + 1, depth + 1)
    ELSE IF s[j] = ")" THEN (IF depth = 0 THEN j ELSE DestEnd(s, j + 1, depth - 1))
    ELSE DestEnd(s, j + 1, depth)

\* the character at j follows an odd number of backslashes
Escaped(s, j) == (j - 1 - Max({m \in 1..(j - 1) : s[m] # "\\"} \cup {0})) % 2 = 1

\* the first index from i on whose character is in set and not escaped,
\* past the end without one
FindUnescaped(s, i, set) ==
    Min({j \in i..Len(s) : s[j] \in set /\ ~Escaped(s, j)} \cup {Max({i, Len(s) + 1})})

\* <<destination, index after it>> of the link destination at j, <<Nil, 0>>
\* without one
LinkDest(s, j) ==
    LET close == Min({FindUnescaped(s, j + 1, {">", "<"}), FindChar(s, j + 1, {"\n"})})
        e     == DestEnd(s, j, 0)
    IN  IF At(s, j) = "<"
        THEN (IF At(s, close) = ">" THEN <<SubSeq(s, j + 1, close - 1), close + 1>>
              ELSE <<Nil, 0>>)
        ELSE <<SubSeq(s, j, e - 1), e>>

\* the index after the link title at j, j without a title, 0 for a title
\* that does not end
TitleEnd(s, j) ==
    LET c     == At(s, j)
        close == FindUnescaped(s, j + 1, IF c = "(" THEN {"(", ")"} ELSE {c})
    IN  IF c \notin {"\"", Apostrophe, "("} THEN j
        ELSE IF close <= Len(s) /\ s[close] # "(" THEN close + 1
        ELSE 0

\* unicode case folding of the letters beyond ASCII: the capital letters of
\* Latin, Greek and Cyrillic, the final sigma, the micro sign and the long s
FoldFrom ==
    << "U+00C0", "U+00C1", "U+00C2", "U+00C3", "U+00C4", "U+00C5", "U+00C6",
       "U+00C7", "U+00C8", "U+00C9", "U+00CA", "U+00CB", "U+00CC", "U+00CD",
       "U+00CE", "U+00CF", "U+00D0", "U+00D1", "U+00D2", "U+00D3", "U+00D4",
       "U+00D5", "U+00D6", "U+00D8", "U+00D9", "U+00DA", "U+00DB", "U+00DC",
       "U+00DD", "U+00DE", "U+0100", "U+0102", "U+0104", "U+0106", "U+0108",
       "U+010A", "U+010C", "U+010E", "U+0110", "U+0112", "U+0114", "U+0116",
       "U+0118", "U+011A", "U+011C", "U+011E", "U+0120", "U+0122", "U+0124",
       "U+0126", "U+0128", "U+012A", "U+012C", "U+012E", "U+0132", "U+0134",
       "U+0136", "U+0139", "U+013B", "U+013D", "U+013F", "U+0141", "U+0143",
       "U+0145", "U+0147", "U+014A", "U+014C", "U+014E", "U+0150", "U+0152",
       "U+0154", "U+0156", "U+0158", "U+015A", "U+015C", "U+015E", "U+0160",
       "U+0162", "U+0164", "U+0166", "U+0168", "U+016A", "U+016C", "U+016E",
       "U+0170", "U+0172", "U+0174", "U+0176", "U+0178", "U+0179", "U+017B",
       "U+017D", "U+0391", "U+0392", "U+0393", "U+0394", "U+0395", "U+0396",
       "U+0397", "U+0398", "U+0399", "U+039A", "U+039B", "U+039C", "U+039D",
       "U+039E", "U+039F", "U+03A0", "U+03A1", "U+03A3", "U+03A4", "U+03A5",
       "U+03A6", "U+03A7", "U+03A8", "U+03A9", "U+0410", "U+0411", "U+0412",
       "U+0413", "U+0414", "U+0415", "U+0416", "U+0417", "U+0418", "U+0419",
       "U+041A", "U+041B", "U+041C", "U+041D", "U+041E", "U+041F", "U+0420",
       "U+0421", "U+0422", "U+0423", "U+0424", "U+0425", "U+0426", "U+0427",
       "U+0428", "U+0429", "U+042A", "U+042B", "U+042C", "U+042D", "U+042E",
       "U+042F", "U+0400", "U+0401", "U+0402", "U+0403", "U+0404", "U+0405",
       "U+0406", "U+0407", "U+0408", "U+0409", "U+040A", "U+040B", "U+040C",
       "U+040D", "U+040E", "U+040F", "U+03C2", "U+00B5", "U+017F" >>

FoldTo ==
    << "U+00E0", "U+00E1", "U+00E2", "U+00E3", "U+00E4", "U+00E5", "U+00E6",
       "U+00E7", "U+00E8", "U+00E9", "U+00EA", "U+00EB", "U+00EC", "U+00ED",
       "U+00EE", "U+00EF", "U+00F0", "U+00F1", "U+00F2", "U+00F3", "U+00F4",
       "U+00F5", "U+00F6", "U+00F8", "U+00F9", "U+00FA", "U+00FB", "U+00FC",
       "U+00FD", "U+00FE", "U+0101", "U+0103", "U+0105", "U+0107", "U+0109",
       "U+010B", "U+010D", "U+010F", "U+0111", "U+0113", "U+0115", "U+0117",
       "U+0119", "U+011B", "U+011D", "U+011F", "U+0121", "U+0123", "U+0125",
       "U+0127", "U+0129", "U+012B", "U+012D", "U+012F", "U+0133", "U+0135",
       "U+0137", "U+013A", "U+013C", "U+013E", "U+0140", "U+0142", "U+0144",
       "U+0146", "U+0148", "U+014B", "U+014D", "U+014F", "U+0151", "U+0153",
       "U+0155", "U+0157", "U+0159", "U+015B", "U+015D", "U+015F", "U+0161",
       "U+0163", "U+0165", "U+0167", "U+0169", "U+016B", "U+016D", "U+016F",
       "U+0171", "U+0173", "U+0175", "U+0177", "U+00FF", "U+017A", "U+017C",
       "U+017E", "U+03B1", "U+03B2", "U+03B3", "U+03B4", "U+03B5", "U+03B6",
       "U+03B7", "U+03B8", "U+03B9", "U+03BA", "U+03BB", "U+03BC", "U+03BD",
       "U+03BE", "U+03BF", "U+03C0", "U+03C1", "U+03C3", "U+03C4", "U+03C5",
       "U+03C6", "U+03C7", "U+03C8", "U+03C9", "U+0430", "U+0431", "U+0432",
       "U+0433", "U+0434", "U+0435", "U+0436", "U+0437", "U+0438", "U+0439",
       "U+043A", "U+043B", "U+043C", "U+043D", "U+043E", "U+043F", "U+0440",
       "U+0441", "U+0442", "U+0443", "U+0444", "U+0445", "U+0446", "U+0447",
       "U+0448", "U+0449", "U+044A", "U+044B", "U+044C", "U+044D", "U+044E",
       "U+044F", "U+0450", "U+0451", "U+0452", "U+0453", "U+0454", "U+0455",
       "U+0456", "U+0457", "U+0458", "U+0459", "U+045A", "U+045B", "U+045C",
       "U+045D", "U+045E", "U+045F", "U+03C3", "U+03BC", "s" >>

\* the folded form of a character: sharp s folds to two letters
FoldChar(c) ==
    IF c \in {"U+00DF", "U+1E9E"} THEN <<"s", "s">>
    ELSE IF \E k \in DOMAIN FoldFrom : FoldFrom[k] = c
    THEN <<FoldTo[CHOOSE k \in DOMAIN FoldFrom : FoldFrom[k] = c]>>
    ELSE ToLower(<<c>>)

\* full unicode case folding of the label
FoldCase(s) == Concat([i \in 1..Len(s) |-> FoldChar(s[i])])

\* a link label: lower case, blanks trimmed and runs of blanks as one space
NormalLabel(label) ==
    LET t == TrimBlanks([i \in 1..Len(label) |->
                            IF label[i] \in HtmlSpace THEN " " ELSE label[i]])
        keep == SelectSeq([i \in 1..Len(t) |-> i],
                          LAMBDA i : ~(t[i] = " " /\ At(t, i - 1) = " "))
    IN  FoldCase([i \in 1..Len(keep) |-> t[keep[i]]])

\* the link reference definition that starts at p in the text of a
\* paragraph:  [label]: destination "title", where a line ending may come
\* before the destination and before the title and the label and the
\* title may run over lines.  last: the index of the last character of its
\* last line, 0 when none starts at p.
RefDefAt(s, p) ==
    LET close == FindUnescaped(s, p + 1, {"]", "["})
        d     == SkipWhile(s, close + 2, HtmlSpace)
        dest  == LinkDest(s, d)
        g     == SkipWhile(s, dest[2], Blanks)
        te    == TitleEnd(s, g)
        ge    == SkipWhile(s, te, Blanks)
        g2    == SkipWhile(s, g + 1, Blanks)
        te2   == TitleEnd(s, g2)
        ge2   == SkipWhile(s, te2, Blanks)
        AtEnd(j) == At(s, j) \in {"", "\n"}
        last  == IF g > dest[2] /\ te > g /\ AtEnd(ge) THEN ge - 1
                 ELSE IF AtEnd(g) /\ g <= Len(s) /\ te2 > g2 /\ AtEnd(ge2) THEN ge2 - 1
                 ELSE IF AtEnd(g) THEN g - 1
                 ELSE 0
    IN  IF /\ At(s, p) = "["
           /\ At(s, close) = "]"
           /\ At(s, close + 1) = ":"
           /\ \E j \in (p + 1)..(close - 1) : s[j] \notin HtmlSpace
           /\ d <= Len(s)
           /\ dest[2] > 0
           /\ (dest[2] > d)
           /\ last > 0
        THEN [label |-> NormalLabel(SubSeq(s, p + 1, close - 1)), dest |-> dest[1],
              first |-> p, last |-> last]
        ELSE [label |-> <<>>, dest |-> <<>>, first |-> p, last |-> 0]

\* the link reference definitions the text of a paragraph starts with
RECURSIVE RefDefs(_, _)
RefDefsAfter(s, d) == IF d.last = 0 THEN <<>> ELSE <<d>> \o RefDefs(s, d.last + 2)

RefDefs(s, p) == IF p > Len(s) THEN <<>> ELSE RefDefsAfter(s, RefDefAt(s, p))


BlockQuote(ch)    == Node("Blockquote", 0, 0, <<>>, <<>>, ch)
HTMLBlock(lines)  == Node("HTMLBlock", 0, 0, lines, <<>>, <<>>)
CodeSpan(ch)      == Node("CodeSpan", 0, 0, <<>>, <<>>, ch)
AutoLink(url)     == Node("AutoLink", 0, 0, url, <<>>, <<>>)
\* a link reference definition: no node of the tree, kept until the
\* inline content is read
RefDef(label, d)  == Node("LinkReferenceDefinition", 0, 0, label, d, <<>>)

\* a block read from the lines a..b; open: a paragraph that its last line
\* may continue lazily is open at its end.  The inline content of a
\* paragraph or heading is its value until ParseInlines reads it.
Block(node, a, b, open) == [n |-> node, a |-> a, b |-> b, open |-> open]

OpenAtEnd(bs, n) == bs # <<>> /\ bs[Len(bs)].b = n /\ bs[Len(bs)].open

\* the raw inline content of the paragraph lines a..b: every line without
\* the blanks before it, the last one without the blanks after it
ParagraphText(ls, a, b) ==
    Join([j \in 1..(b - a + 1) |->
            LET t == TrimBlanksLeft(Chars(DropLazy(ls[a + j - 1])))
            IN  IF a + j - 1 = b THEN TrimBlanksRight(t) ELSE t],
         <<"\n">>)

\* the lines a..b with the newline of each, without n columns of indentation
CodeLines(ls, a, b, n) ==
    Concat([j \in 1..(b - a + 1) |-> Chars(Unindent(ls[a + j - 1], n)) \o <<"\n">>])

\* the content of the block quote lines a..b
QuoteContent(ls, a, b) ==
    [j \in 1..(b - a + 1) |->
        IF IsQuoteLine(ls[a + j - 1]) THEN QuoteStrip(ls[a + j - 1])
        ELSE <<LazyMark>> \o ls[a + j - 1]]

\* the content of the list item of width w on the lines a..b
ItemContent(ls, a, b, w) ==
    [j \in 1..(b - a + 1) |->
        LET t == ls[a + j - 1]
        IN  IF j = 1
            THEN (IF ItemRestBlank(t) THEN <<>>
                  ELSE Unindent(AfterMarker(t), w - Indent(t) - MarkerEnd(t)))
            ELSE IF IsBlank(t) \/ Indent(t) >= w THEN Unindent(t, w)
            ELSE <<LazyMark>> \o t]

\* the paragraphs that are children of the items of a tight list are
\* TextBlocks
Tighten(nodes) ==
    [i \in 1..Len(nodes) |->
        IF nodes[i].kind = "Paragraph" THEN [nodes[i] EXCEPT !.kind = "TextBlock"]
        ELSE nodes[i]]

NodesOf(bs) == [i \in 1..Len(bs) |-> bs[i].n]

\* two of the blocks have a blank line between them
BlankBetween(bs) == \E i \in 1..(Len(bs) - 1) : bs[i + 1].a > bs[i].b + 1

RECURSIVE Blocks(_, _)
RECURSIVE QuoteEnd(_, _, _)
RECURSIVE ItemEnd(_, _, _, _)
RECURSIVE ListItems(_, _)

\* the last line of the block quote that starts at line k, j the next
\* line to look at: the lines with the marker, and the lines that continue
\* its open paragraph lazily
QuoteEnd(ls, k, j) ==
    IF j > Len(ls) THEN j - 1
    ELSE IF \/ IsQuoteLine(ls[j])
            \/ /\ ~IsBlank(ls[j])
               /\ ~StartsBlock(ls[j])
               /\ OpenAtEnd(Blocks(QuoteContent(ls, k, j - 1), 1), j - k)
    THEN QuoteEnd(ls, k, j + 1)
    ELSE j - 1

\* the line before the first one that does not belong to the list item of
\* width w that starts at line k, j the next line to look at: the blank
\* lines, the lines indented by w, and the lines that continue its open
\* paragraph lazily
ItemEnd(ls, k, w, j) ==
    IF j > Len(ls) THEN j - 1
    ELSE IF IsBlank(ls[j]) /\ j = k + 1 /\ ItemRestBlank(ls[k]) THEN k
    ELSE IF \/ IsBlank(ls[j])
            \/ Indent(ls[j]) >= w
            \/ /\ ~IsBlank(ls[j - 1])
               /\ ~StartsBlock(ls[j])
               /\ OpenAtEnd(Blocks(ItemContent(ls, k, j - 1, w), 1), j - k)
    THEN ItemEnd(ls, k, w, j + 1)
    ELSE j - 1

\* the fenced code block that the lines end in has no closing fence
FenceOpenAtEnd(ls, bs) ==
    /\ bs # <<>>
    /\ bs[Len(bs)].n.kind = "FencedCodeBlock"
    /\ bs[Len(bs)].b = Len(ls)
    /\ \/ bs[Len(bs)].a = Len(ls)
       \/ ~ClosesFence(ls[Len(ls)], Body(ls[bs[Len(bs)].a])[1], FenceLen(ls[bs[Len(bs)].a]))

\* the item of width w that starts at line k and ends before line stop + 1,
\* and the items of the list after it.  The blank lines at the end of an
\* item are lines of the fenced code block that is open there, and no part
\* of the item otherwise.
ItemAndRest(ls, k, w, stop) ==
    LET b0 == Max({j \in k..stop : ~IsBlank(ls[j])} \cup {k})
        b  == IF /\ stop > b0
                 /\ FenceOpenAtEnd(ItemContent(ls, k, b0, w),
                                   Blocks(ItemContent(ls, k, b0, w), 1))
              THEN stop ELSE b0
        nx == Min({j \in (b + 1)..Len(ls) : ~IsBlank(ls[j])} \cup {Len(ls) + 1})
    IN  <<[a |-> k, b |-> b, w |-> w]>>
        \o (IF /\ nx <= Len(ls)
               /\ MarkerEnd(ls[nx]) > 0
               /\ MarkerType(ls[nx]) = MarkerType(ls[k])
               /\ ~IsThematicBreak(ls[nx])
            THEN ListItems(ls, nx) ELSE <<>>)

\* the items of the list that starts at line k: first line, last line that
\* is not blank and width of each
ListItems(ls, k) ==
    ItemAndRest(ls, k, ItemWidth(ls[k]), ItemEnd(ls, k, ItemWidth(ls[k]), k + 1))

\* the block quote of the lines k..e with the blocks of its content
QuoteNode(k, e, kids) ==
    <<Block(BlockQuote(NodesOf(kids)), k, e, OpenAtEnd(kids, e - k + 1))>>

QuoteBlock(ls, k, e) == QuoteNode(k, e, Blocks(QuoteContent(ls, k, e), 1))

\* the list of the items with the blocks of each: loose when a blank line
\* is between two items or between two blocks of an item, tight otherwise
ListNode(k, its, kids) ==
    LET loose == \/ \E i \in 1..(Len(its) - 1) : its[i + 1].a > its[i].b + 1
                 \/ \E i \in 1..Len(its) : BlankBetween(kids[i])
        last  == its[Len(its)]
    IN  <<Block(List([i \in 1..Len(its) |->
                        ListItem(IF loose THEN NodesOf(kids[i])
                                 ELSE Tighten(NodesOf(kids[i])))]),
                k, last.b,
                OpenAtEnd(kids[Len(its)], last.b - last.a + 1))>>

ListBlock(ls, k, its) ==
    ListNode(k, its, [i \in 1..Len(its) |->
                        Blocks(ItemContent(ls, its[i].a, its[i].b, its[i].w), 1)])

\* the line of the text of a paragraph that holds the character at p, the
\* first line of the paragraph being line k
LineOfChar(s, p, k) == k + Cardinality({j \in 1..(p - 1) : s[j] = "\n"})

\* the paragraph that starts at line k and ends before line stop.  The
\* link reference definitions its text starts with are no part of it; what
\* is left is a setext heading when line stop underlines it, and a
\* paragraph otherwise.  With nothing left, line stop underlines nothing
\* and opens a block of its own.
ParagraphBlock(ls, k, stop) ==
    LET para  == ParagraphText(ls, k, stop - 1)
        defs  == RefDefs(para, 1)
        from  == IF defs = <<>> THEN k
                 ELSE LineOfChar(para, defs[Len(defs)].last, k) + 1
    IN  [j \in 1..Len(defs) |->
            Block(RefDef(defs[j].label, defs[j].dest),
                  LineOfChar(para, defs[j].first, k), LineOfChar(para, defs[j].last, k),
                  j = Len(defs) /\ from = stop)]
        \o (IF from = stop THEN <<>>
            ELSE IF stop <= Len(ls) /\ SetextLevel(ls[stop]) > 0
            THEN <<Block([Heading(SetextLevel(ls[stop]), <<>>)
                             EXCEPT !.value = ParagraphText(ls, from, stop - 1)],
                         from, stop, FALSE)>>
            ELSE <<Block([Paragraph(<<>>) EXCEPT
                            !.value = ParagraphText(ls, from, stop - 1)],
                         from, stop - 1, TRUE)>>)

\* the blocks that the line k opens, kind the kind of the line
BlockOfKind(ls, k, kind) ==
    LET n == Len(ls)
        t == ls[k]
    IN  CASE kind = "code" ->
                 LET e == Max({j \in k..n :
                                 /\ ~IsBlank(ls[j])
                                 /\ \A m \in k..j : IsBlank(ls[m]) \/ Indent(ls[m]) >= 4})
                 IN  <<Block(CodeBlock(CodeLines(ls, k, e, 4)), k, e, FALSE)>>
          [] kind = "fence" ->
                 LET c == Body(t)[1]
                     e == Min({j \in (k + 1)..n : ClosesFence(ls[j], c, FenceLen(t))}
                                  \cup {n + 1})
                 IN  <<Block(FencedCodeBlock(CodeLines(ls, k + 1, e - 1, Indent(t))),
                             k, Min({e, n}), FALSE)>>
          [] kind = "atx" ->
                 <<Block([Heading(AtxLevel(t), <<>>) EXCEPT !.value = AtxContent(t)],
                         k, k, FALSE)>>
          [] kind = "break" -> <<Block(ThematicBreak, k, k, FALSE)>>
          [] kind = "quote" -> QuoteBlock(ls, k, QuoteEnd(ls, k, k + 1))
          [] kind = "html" ->
                 LET h == HtmlBlockKind(t)
                     e == IF h >= 6
                          THEN Min({j \in k..n : j = n \/ IsBlank(ls[j + 1])})
                          ELSE Min({j \in k..n : j = n \/ EndsHtmlBlock(ls[j], h)})
                 IN  <<Block(HTMLBlock(CodeLines(ls, k, e, 0)), k, e, FALSE)>>
          [] kind = "item" -> ListBlock(ls, k, ListItems(ls, k))
          [] kind = "text" ->
                 ParagraphBlock(ls, k,
                     Min({j \in (k + 1)..n : \/ IsBlank(ls[j])
                                             \/ SetextLevel(ls[j]) > 0
                                             \/ InterruptsParagraph(ls[j])} \cup {n + 1}))

\* the blocks that the line k, which is not blank, opens
BlockAt(ls, k) == BlockOfKind(ls, k, LineKind(ls[k]))

\* the blocks bs, and the blocks of the lines after them
BlocksAfter(ls, bs) == bs \o Blocks(ls, bs[Len(bs)].b + 1)

\* the blocks of the lines from line k on
Blocks(ls, k) ==
    IF \A j \in k..Len(ls) : IsBlank(ls[j]) THEN <<>>
    ELSE BlocksAfter(ls, BlockAt(ls, Min({j \in k..Len(ls) : ~IsBlank(ls[j])})))

\* Inline content.  The text is read from left to right into a sequence
\* of items: the nodes read so far, the delimiter runs of * and _ that
\* may still open or close emphasis, the brackets that may still open a
\* link or an image, and the line breaks.

Delim(ch, n, open, close) ==
    [kind |-> "delim", ch |-> ch, n |-> n, orig |-> n, open |-> open, close |-> close]

Bracket(image, start) ==
    [kind |-> "bracket", image |-> image, active |-> TRUE, pos |-> start]

LineBreak == [kind |-> "break"]

\* the characters of a delimiter run or bracket that stays text
LiteralOf(item) ==
    IF item.kind = "delim" THEN [i \in 1..item.n |-> item.ch]
    ELSE IF item.image THEN <<"!", "[">>
    ELSE <<"[">>

\* ast.MergeOrAppendTextSegment: text that follows a Text at once is
\* part of its segment
AppendText(items, v) ==
    IF v = <<>> THEN items
    ELSE IF items # <<>> /\ items[Len(items)].kind = "Text"
    THEN [items EXCEPT ![Len(items)].value = @ \o v]
    ELSE Append(items, Text(v))

\* ast.MergeOrReplaceTextSegment: the item b stays text, part of the
\* segment of the Text before it when there is one
Literalise(items, b) ==
    IF b > 1 /\ items[b - 1].kind = "Text"
    THEN SubSeq(items, 1, b - 2)
         \o <<[items[b - 1] EXCEPT !.value = @ \o LiteralOf(items[b])]>>
         \o SubSeq(items, b + 1, Len(items))
    ELSE [items EXCEPT ![b] = Text(LiteralOf(items[b]))]

\* every delimiter run and bracket left over stays text
RECURSIVE MergeLiterals(_, _)
MergeLiterals(items, acc) ==
    IF items = <<>> THEN acc
    ELSE LET h == Head(items)
         IN  MergeLiterals(Tail(items),
                 IF h.kind \in {"delim", "bracket"}
                 THEN (IF acc # <<>> /\ acc[Len(acc)].kind = "Text"
                       THEN [acc EXCEPT ![Len(acc)].value = @ \o LiteralOf(h)]
                       ELSE Append(acc, Text(LiteralOf(h))))
                 ELSE Append(acc, h))

\* the nodes of the items: a line break ends the segment of a Text and is
\* no node of its own
Finish(items) ==
    SelectSeq(MergeLiterals(items, <<>>), LAMBDA n : n.kind # "break")

\* the blanks before a line ending are not part of the text
TrimLastText(items) ==
    IF items = <<>> \/ items[Len(items)].kind # "Text" THEN items
    ELSE LET v == TrimBlanksRight(items[Len(items)].value)
         IN  IF v = <<>> THEN SubSeq(items, 1, Len(items) - 1)
             ELSE [items EXCEPT ![Len(items)].value = v]

UnicodeWhitespace == {"", " ", "\t", "\n", "\f", "\r", NoBreakSpace} \cup SpaceSeparators

\* unicode.IsPunct: the ASCII punctuation, and beyond ASCII the characters
\* of the categories P of Latin-1, General Punctuation and CJK punctuation
UnicodePunct ==
    AsciiPunct \cup
    { "U+00A1", "U+00A7", "U+00AB", "U+00B6", "U+00B7", "U+00BB", "U+00BF",
      "U+2010", "U+2011", "U+2012", "U+2013", "U+2014", "U+2015", "U+2016",
      "U+2017", "U+2018", "U+2019", "U+201A", "U+201B", "U+201C", "U+201D",
      "U+201E", "U+201F", "U+2020", "U+2021", "U+2022", "U+2023", "U+2024",
      "U+2025", "U+2026", "U+2027", "U+2030", "U+2031", "U+2032", "U+2033",
      "U+2034", "U+2035", "U+2036", "U+2037", "U+2038", "U+2039", "U+203A",
      "U+203B", "U+203C", "U+203D", "U+203E", "U+203F", "U+2040", "U+2041",
      "U+2042", "U+2043", "U+2045", "U+2046", "U+2047", "U+2048", "U+2049",
      "U+204A", "U+204B", "U+204C", "U+204D", "U+204E", "U+204F", "U+2050",
      "U+2051", "U+2053", "U+2054", "U+2055", "U+2056", "U+2057", "U+2058",
      "U+2059", "U+205A", "U+205B", "U+205C", "U+205D", "U+205E", "U+3001",
      "U+3002", "U+3003", "U+3008", "U+3009", "U+300A", "U+300B", "U+300C",
      "U+300D", "U+300E", "U+300F", "U+3010", "U+3011", "U+3014", "U+3015",
      "U+3016", "U+3017", "U+3018", "U+3019", "U+301A", "U+301B", "U+301C",
      "U+301D", "U+301E", "U+301F", "U+037E", "U+0387", "U+055A", "U+05BE",
      "U+FF01", "U+FF0C", "U+FF1A", "U+FF1F" }

\* the delimiter run of n characters c at i, with what it can do by the
\* characters around it
DelimAt(s, i, c, n) ==
    LET before == At(s, i - 1)
        after  == At(s, i + n)
        wsB    == before \in UnicodeWhitespace
        wsA    == after \in UnicodeWhitespace
        pB     == before \in UnicodePunct
        pA     == after \in UnicodePunct
        left   == ~wsA /\ (~pA \/ wsB \/ pB)
        right  == ~wsB /\ (~pB \/ wsA \/ pA)
    IN  IF c = "*" THEN Delim(c, n, left, right)
        ELSE Delim(c, n, left /\ (~right \/ pB), right /\ (~left \/ pA))

\* an opener and a closer of emphasis match unless one of them can both
\* open and close and their lengths add up to a multiple of 3 that the two
\* are not
DelimsMatch(o, c) ==
    ~ (/\ o.close \/ c.open
       /\ (o.orig + c.orig) % 3 = 0
       /\ ~(o.orig % 3 = 0 /\ c.orig % 3 = 0))

\* the emphasis of the items: every closer, from the left, takes the
\* nearest opener before it that matches; what is between the two is the
\* content of the Emphasis
RECURSIVE ProcessEmphasis(_, _)
ProcessEmphasis(items, from) ==
    LET closers == {j \in from..Len(items) : items[j].kind = "delim" /\ items[j].close}
        c       == Min(closers)
        openers == {o \in 1..(c - 1) : /\ items[o].kind = "delim"
                                       /\ items[o].open
                                       /\ items[o].ch = items[c].ch
                                       /\ DelimsMatch(items[o], items[c])}
        o       == Max(openers)
        k       == IF items[o].n >= 2 /\ items[c].n >= 2 THEN 2 ELSE 1
        left    == IF items[o].n > k THEN <<[items[o] EXCEPT !.n = @ - k]>> ELSE <<>>
        right   == IF items[c].n > k THEN <<[items[c] EXCEPT !.n = @ - k]>> ELSE <<>>
    IN  IF closers = {} THEN items
        ELSE IF openers = {}
        THEN ProcessEmphasis(IF items[c].open THEN items
                             ELSE [items EXCEPT ![c].close = FALSE], c + 1)
        ELSE ProcessEmphasis(SubSeq(items, 1, o - 1) \o left
                                 \o <<Emphasis(k, Finish(SubSeq(items, o + 1, c - 1)))>>
                                 \o right \o SubSeq(items, c + 1, Len(items)),
                             o + Len(left) + 1)

\* the index of the backtick string that closes the code span opened by n
\* backticks at i, 0 without one
CodeSpanEnd(s, i, n) ==
    LET at == {j \in (i + n)..Len(s) : /\ s[j] = BackTick
                                       /\ s[j - 1] # BackTick
                                       /\ RunLen(s, j, BackTick) = n}
    IN  IF at = {} THEN 0 ELSE Min(at)

\* the segments of a code span: one per line, with its line ending.  The
\* content that has a space or a line ending at each end and a character
\* that is neither loses one at each end.
CodeSpanSegments(raw) ==
    LET r    == IF /\ Len(raw) >= 2
                   /\ raw[1] \in {" ", "\n"}
                   /\ raw[Len(raw)] \in {" ", "\n"}
                   /\ \E j \in 1..Len(raw) : raw[j] \notin {" ", "\n"}
                THEN SubSeq(raw, 2, Len(raw) - 1) ELSE raw
        ends == {j \in 1..Len(r) : r[j] = "\n"} \cup {Len(r)}
        nth(m) == CHOOSE e \in ends : Cardinality({d \in ends : d < e}) = m - 1
    IN  IF r = <<>> THEN <<>>
        ELSE [m \in 1..Cardinality(ends) |->
                 Text(SubSeq(r, IF m = 1 THEN 1 ELSE nth(m - 1) + 1, nth(m)))]

\* the index of the ">" of the autolink that starts at i, 0 without one
AutoLinkEnd(s, i) ==
    LET close  == FindChar(s, i + 1, {">", "<", " ", "\t", "\n"})
        body   == SubSeq(s, i + 1, close - 1)
        colon  == FindChar(body, 1, {":"})
        at     == FindChar(body, 1, {"@"})
        isURI  == /\ colon \in 3..Min({33, Len(body)})
                  /\ body[1] \in Letters
                  /\ \A j \in 1..(colon - 1) :
                         body[j] \in Letters \cup AsciiDigits \cup {"+", ".", "-"}
        isMail == /\ at \in 2..(Len(body) - 1)
                  /\ \A j \in 1..(at - 1) :
                         body[j] \in Letters \cup AsciiDigits \cup
                             {".", "!", "#", "$", "%", "&", Apostrophe, "*", "+", "/", "=",
                              "?", "^", "_", BackTick, "{", "|", "}", "~", "-"}
                  /\ \A j \in (at + 1)..Len(body) :
                         body[j] \in Letters \cup AsciiDigits \cup {"-", "."}
                  /\ body[at + 1] \notin {"-", "."}
                  /\ body[Len(body)] \notin {"-", "."}
    IN  IF At(s, close) = ">" /\ (isURI \/ isMail) THEN close ELSE 0

\* the index of the last character of the raw HTML that starts at i (a
\* tag, a comment, a processing instruction, a declaration or a CDATA
\* section), 0 without one.  The text of a comment does not start with ">"
\* or "->" and "--" ends it.
InlineHtmlEnd(s, i) ==
    LET found(e, w) == IF e = 0 THEN 0 ELSE e + w
        gt == FindChar(s, i + 2, {">"})
        dd == FindSub(s, i + 4, <<"-", "-">>)
    IN  IF HasPrefix(s, i, <<"<", "!", "-", "-">>)
        THEN (IF /\ dd > 0
                 /\ At(s, dd + 2) = ">"
                 /\ At(s, i + 4) # ">"
                 /\ ~HasPrefix(s, i + 4, <<"-", ">">>)
              THEN dd + 2 ELSE 0)
        ELSE IF HasPrefix(s, i, <<"<", "?">>)
        THEN found(FindSub(s, i + 2, <<"?", ">">>), 1)
        ELSE IF HasPrefix(s, i, <<"<", "!", "[", "C", "D", "A", "T", "A", "[">>)
        THEN found(FindSub(s, i + 9, <<"]", "]", ">">>), 2)
        ELSE IF At(s, i + 1) = "!" /\ At(s, i + 2) \in Letters
        THEN (IF gt <= Len(s) THEN gt ELSE 0)
        ELSE TagEnd(s, i)

\* the destination of the first definition of the label, Nil without one
LookupRef(refs, label) ==
    LET l == NormalLabel(label)
        at == {j \in 1..Len(refs) : refs[j][1] = l}
    IN  IF l = <<>> \/ at = {} THEN Nil ELSE refs[Min(at)][2]

\* what the bracket at start that the "]" at i closes links to:
\* <<destination, index after the link>>, <<Nil, 0>> when it is no link.
\* An inline link "(dest "title")" first, then a reference to a definition:
\* full "[label]", collapsed "[]" or shortcut.
LinkTarget(s, i, start, refs) ==
    LET q     == SkipWhile(s, i + 2, HtmlSpace)
        d     == LinkDest(s, q)
        r     == SkipWhile(s, d[2], HtmlSpace)
        te    == IF r > d[2] THEN TitleEnd(s, r) ELSE r
        r2    == SkipWhile(s, te, HtmlSpace)
        inline == /\ At(s, i + 1) = "("
                  /\ d[2] > 0
                  /\ te > 0
                  /\ At(s, r2) = ")"
        body  == SubSeq(s, start + 1, i - 1)
        close == FindUnescaped(s, i + 2, {"]", "["})
        full  == At(s, i + 1) = "[" /\ At(s, close) = "]"
        label == IF full /\ close > i + 2 THEN SubSeq(s, i + 2, close - 1) ELSE body
        ref   == IF \E j \in 1..Len(label) : label[j] \in {"[", "]"} /\ ~Escaped(label, j)
                 THEN Nil
                 ELSE LookupRef(refs, label)
    IN  IF inline THEN <<d[1], r2 + 1>>
        ELSE IF ref = Nil THEN <<Nil, 0>>
        ELSE <<ref, IF full THEN close + 1 ELSE i + 1>>

\* the characters that may open or close an inline other than text
Specials == {"\\", "\n", BackTick, "<", "!", "[", "]", "*", "_"}

RECURSIVE Scan(_, _, _, _)

\* the "]" at i: closes the nearest bracket before it as a Link or an
\* Image when a target follows, and stays text (as the bracket does) when
\* none follows or a link inside has put the bracket out of use
CloseBracket(s, i, items, refs) ==
    LET b     == Max({j \in 1..Len(items) : items[j].kind = "bracket"} \cup {0})
        tgt   == IF items[b].active THEN LinkTarget(s, i, items[b].pos, refs)
                 ELSE <<Nil, 0>>
        inner == Finish(ProcessEmphasis(SubSeq(items, b + 1, Len(items)), 1))
        pre   == [j \in 1..(b - 1) |->
                    IF items[j].kind = "bracket" /\ ~items[j].image /\ ~items[b].image
                    THEN [items[j] EXCEPT !.active = FALSE]
                    ELSE items[j]]
    IN  IF b = 0 THEN Scan(s, i + 1, AppendText(items, <<"]">>), refs)
        ELSE IF tgt[2] = 0
        THEN Scan(s, i + 1, AppendText(Literalise(items, b), <<"]">>), refs)
        ELSE Scan(s, tgt[2],
                  Append(pre, IF items[b].image THEN Image(tgt[1], inner)
                              ELSE Link(tgt[1], inner)),
                  refs)

\* the items of the text from i on, after the items read so far
Scan(s, i, items, refs) ==
    IF i > Len(s) THEN items
    ELSE LET c    == s[i]
             next == At(s, i + 1)
             n    == RunLen(s, i, c)
             tick == CodeSpanEnd(s, i, n)
             auto == AutoLinkEnd(s, i)
             html == InlineHtmlEnd(s, i)
             e    == FindChar(s, i + 1, Specials)
         IN  IF c = "\\" /\ next = "\n"
             THEN Scan(s, SkipWhile(s, i + 2, Blanks), Append(items, LineBreak), refs)
             ELSE IF c = "\\" /\ next \in AsciiPunct
             THEN Scan(s, i + 2, AppendText(items, <<c, next>>), refs)
             ELSE IF c = "\n"
             THEN Scan(s, SkipWhile(s, i + 1, Blanks),
                       Append(TrimLastText(items), LineBreak), refs)
             ELSE IF c = BackTick /\ tick > 0
             THEN Scan(s, tick + n,
                       Append(items, CodeSpan(CodeSpanSegments(SubSeq(s, i + n, tick - 1)))),
                       refs)
             ELSE IF c = BackTick
             THEN Scan(s, i + n, AppendText(items, SubSeq(s, i, i + n - 1)), refs)
             ELSE IF c = "<" /\ auto > 0
             THEN Scan(s, auto + 1, Append(items, AutoLink(SubSeq(s, i + 1, auto - 1))), refs)
             ELSE IF c = "<" /\ html > 0
             THEN Scan(s, html + 1, Append(items, RawHTML(SubSeq(s, i, html))), refs)
             ELSE IF c = "!" /\ next = "["
             THEN Scan(s, i + 2, Append(items, Bracket(TRUE, i + 1)), refs)
             ELSE IF c = "["
             THEN Scan(s, i + 1, Append(items, Bracket(FALSE, i)), refs)
             ELSE IF c = "]"
             THEN CloseBracket(s, i, items, refs)
             ELSE IF c \in {"*", "_"}
             THEN Scan(s, i + n, Append(items, DelimAt(s, i, c, n)), refs)
             ELSE Scan(s, e, AppendText(items, SubSeq(s, i, e - 1)), refs)

\* the inline nodes of the content of a paragraph or a heading
ParseInlines(s, refs) == Finish(ProcessEmphasis(Scan(s, 1, <<>>, refs), 1))

\* the link reference definitions of the blocks, in the order of the text
RECURSIVE CollectRefs(_)
CollectRefs(nodes) ==
    Concat([i \in 1..Len(nodes) |->
               IF nodes[i].kind = "LinkReferenceDefinition"
               THEN << <<nodes[i].value, nodes[i].dest>> >>
               ELSE CollectRefs(nodes[i].children)])

\* the blocks with the inline content of every paragraph and heading read
RECURSIVE ReadInlines(_, _)
ReadInlines(nodes, refs) ==
    LET keep == SelectSeq(nodes, LAMBDA n : n.kind # "LinkReferenceDefinition")
    IN  [i \in 1..Len(keep) |->
            IF keep[i].kind \in {"Paragraph", "TextBlock", "Heading"}
            THEN [keep[i] EXCEPT !.value = <<>>,
                                 !.children = ParseInlines(keep[i].value, refs)]
            ELSE [keep[i] EXCEPT !.children = ReadInlines(@, refs)]]

\* the blocks as the children of the document: without the link reference
\* definitions, which the inline content is read with
DocumentOf(bs) == WithIds(ReadInlines(bs, CollectRefs(bs)))

\* the children of the document read from the Markdown text
ReadMarkdown(md) == DocumentOf(NodesOf(Blocks(Lines(md), 1)))

\* the Recipe node of the second pass: render, read, Transform
SecondRecipeNode(recipeNode) ==
    TransformRecipeNode(ReadMarkdown(MarkdownRender(recipeNode)))

\* <<name, level of the heading>> of the groups of a Recipe node of pkg/ast
GroupLevels(recipeNode) ==
    LET ingr == ChildrenOfKind(recipeNode.children, "Ingredients")
        gs   == IF ingr = <<>> THEN <<>>
                ELSE ChildrenOfKind(ingr[1].children, "IngredientGroup")
    IN  [i \in 1..Len(gs) |-> <<gs[i].Name, gs[i].children[1].level>>]

\* <<amount text, name>> of the Ingredient nodes, ungrouped and grouped
IngredientTexts(recipeNode) ==
    LET ingr == ChildrenOfKind(recipeNode.children, "Ingredients")
        flat == IF ingr = <<>> THEN <<>>
                ELSE Concat([i \in 1..Len(ingr[1].children) |->
                        IF ingr[1].children[i].kind = "Ingredient"
                        THEN <<ingr[1].children[i]>>
                        ELSE ChildrenOfKind(ingr[1].children[i].children, "Ingredient")])
    IN  [i \in 1..Len(flat) |-> <<flat[i].Amount, flat[i].Name>>]

MaxTripBlocks == 3

\* "- *2 1/4 cups* all-purpose flour", "- [pie crust](./pie-crust.md)",
\* "- *3*" and "-"
TripItems ==
    List(<< ListItem(<<TextBlock(FlourItem)>>),
            ListItem(<<TextBlock(PieCrustItem)>>),
            ListItem(<<TextBlock(<<Emphasis(1, <<Text(<<"3">>)>>)>>)>>),
            ListItem(<<>>) >>)

TripKinds == GroupKinds \cup {"items"}

TripBlock(kind, i) == IF kind = "items" THEN TripItems ELSE GroupBlock(kind, i)

\* the metadata blocks in front of the first "---"
TripPrefixes ==
    { <<>>,
      <<Heading(1, <<Text(<<"T">>)>>)>>,
      <<Heading(1, <<Text(<<"T">>)>>),
        Paragraph(<<Emphasis(1, <<Text(<<"a", ",", " ", "b">>)>>)>>),
        Paragraph(<<Emphasis(2, <<Text(<<"2", " ", "c", "u", "p", "s">>)>>)>>)>>,
      <<Paragraph(<<Text(<<"d">>), Emphasis(1, <<Text(<<"e">>)>>)>>),
        Paragraph(<<Emphasis(1, <<Text(<<"b">>)>>)>>),
        Heading(1, <<Text(<<"T">>)>>),
        Paragraph(<<Emphasis(1, <<Text(<<"a">>)>>)>>),
        Paragraph(<<Emphasis(2, <<Text(<<"4">>)>>)>>),
        Paragraph(<<Emphasis(2, <<Text(<<"1", " ", "l">>)>>)>>)>> }

\* the blocks after the ingredients section
TripSuffixes ==
    { <<>>, <<ThematicBreak, Paragraph(<<Text(<<"s">>)>>)>> }

TripDoc(prefix, kinds, suffix) ==
    WithIds(prefix \o <<ThematicBreak>>
            \o [i \in 1..Len(kinds) |-> TripBlock(kinds[i], i)] \o suffix)

TripInit ==
    /\ doc \in {TripDoc(prefix, kinds, suffix) :
                  prefix \in TripPrefixes,
                  kinds \in SeqsUpTo(TripKinds, MaxTripBlocks),
                  suffix \in TripSuffixes}
    /\ pipeline = "transformer"
    /\ pc = "transform"
    /\ ParserStart
    /\ RenderStart
    /\ root = doc
    /\ recipe = NilNode
    /\ text = <<>>
    /\ out = NoOut

TripNext ==
    \/ TransformerTransform
    \/ CallExtractRecipe

SpecTrip == TripInit /\ [][TripNext]_vars

\* C20: round trip. For every Recipe built by recipeTransformer.Transform,
\* rendering it with the MarkdownRenderer, reading the output again and
\* exporting gives the same Title, the same Tags in the same order, the
\* same Yields and the same ingredient tree - names, amount texts, group
\* names and group levels - as the first export.
C20_RoundTrip ==
    TransformerDone =>
        LET second == SecondRecipeNode(root[1])
            a == ExtractRecipe(root)
            b == ExtractRecipe(<<second>>)
        IN  /\ a.Title = b.Title
            /\ a.Tags = b.Tags
            /\ a.Yields = b.Yields
            /\ a.Ingredients = b.Ingredients
            /\ IngredientTexts(root[1]) = IngredientTexts(second)
            /\ GroupLevels(root[1]) = GroupLevels(second)

\* the Recipe node has an Instructions child
HasInstructions(recipeNode) == ChildrenOfKind(recipeNode.children, "Instructions") # <<>>

\* C21: for every Recipe with instructions, also one whose ingredients
\* section is empty, the MarkdownRenderer writes a divider before the
\* ingredient items and a second divider before the instruction paragraphs,
\* so that the text read again has the instruction paragraphs in the
\* instructions section.
C21_InstructionsStayInstructions ==
    (TransformerDone /\ HasInstructions(root[1])) =>
        LET md     == MarkdownRender(root[1])
            blocks == ReadMarkdown(md)
            second == TransformRecipeNode(blocks)
        IN  /\ Cardinality(BreakIndices(blocks)) = 2
            /\ HasInstructions(second)
            /\ ExtractRecipe(<<second>>).Instructions = ExtractRecipe(root).Instructions

----------------------------------------------------------------------------
(* renderer.HTMLRenderer (src/unnamed/part_002, lines 163-377).  The output *)
(* is kept as the sequence of its pieces: start tags with their class and   *)
(* their other attributes, end tags, and runs of characters.                *)

HTMLOpen(tag, class, attrs) ==
    [t |-> "open", tag |-> tag, class |-> class, attrs |-> attrs, chars |-> <<>>]

HTMLClose(tag) == [t |-> "close", tag |-> tag, class |-> "", attrs |-> {}, chars |-> <<>>]

HTMLChars(c) == [t |-> "chars", tag |-> "", class |-> "", attrs |-> {}, chars |-> c]

HTMLNewline == HTMLChars(<<"\n">>)

\* html.EscapeString
EscapeString(s) ==
    Concat([i \in 1..Len(s) |->
              CASE s[i] = "&"  -> <<"&", "a", "m", "p", ";">>
                [] s[i] = "<"  -> <<"&", "l", "t", ";">>
                [] s[i] = ">"  -> <<"&", "g", "t", ";">>
                [] s[i] = "\"" -> <<"&", "#", "3", "4", ";">>
                [] s[i] = "'"  -> <<"&", "#", "3", "9", ";">>
                [] OTHER       -> <<s[i]>>])

\* the attributes the configuration adds to an element
SchemaOrgAttrs(schemaOrg, attrs) == IF schemaOrg THEN attrs ELSE {}

HTMLRenderRecipeOpen(schemaOrg) ==
    << IF schemaOrg
       THEN HTMLOpen("article", "", {<<"itemscope", "">>,
                                     <<"itemtype", "https://schema.org/Recipe">>})
       ELSE HTMLOpen("article", "recipe", {}),
       HTMLNewline >>

HTMLRenderTitle(node, schemaOrg) ==
    << HTMLOpen("h1", "", SchemaOrgAttrs(schemaOrg, {<<"itemprop", "name">>})),
       HTMLChars(EscapeString(rendererExtractText(node))),
       HTMLClose("h1"), HTMLNewline >>

\* the loop of renderTags and renderYields over strings.Split(text, ",")
HTMLRenderSpans(t, sep, class, prop, schemaOrg) ==
    LET parts == Split(t, ",")
    IN  Concat([i \in 1..Len(parts) |->
                  IF TrimSpace(parts[i]) = <<>> THEN <<>>
                  ELSE (IF i > 1 THEN <<HTMLChars(sep)>> ELSE <<>>)
                       \o << HTMLOpen("span", class,
                                      SchemaOrgAttrs(schemaOrg, {<<"itemprop", prop>>})),
                             HTMLChars(EscapeString(TrimSpace(parts[i]))),
                             HTMLClose("span") >>])

HTMLRenderTagsNode(node, schemaOrg) ==
    <<HTMLOpen("div", "tags", {})>>
    \o HTMLRenderSpans(rendererExtractText(node), <<" ">>, "tag", "keywords", schemaOrg)
    \o <<HTMLClose("div"), HTMLNewline>>

HTMLRenderYieldsNode(node, schemaOrg) ==
    <<HTMLOpen("div", "yields", {})>>
    \o HTMLRenderSpans(rendererExtractText(node), <<",", " ">>, "", "recipeYield", schemaOrg)
    \o <<HTMLClose("div"), HTMLNewline>>

HTMLRenderIngredient(ing, schemaOrg) ==
    <<HTMLOpen("li", "", SchemaOrgAttrs(schemaOrg, {<<"itemprop", "recipeIngredient">>}))>>
    \o (IF ing.Amount # <<>>
        THEN <<HTMLOpen("em", "", {}), HTMLChars(EscapeString(ing.Amount)),
               HTMLClose("em"), HTMLChars(<<" ">>)>>
        ELSE <<>>)
    \o <<HTMLChars(EscapeString(ing.Name)), HTMLClose("li"), HTMLNewline>>

HTMLRenderIngredientGroup(group) ==
    << HTMLClose("ul"), HTMLNewline,
       HTMLOpen("h3", "", {}), HTMLChars(EscapeString(group.Name)), HTMLClose("h3"),
       HTMLNewline, HTMLOpen("ul", "", {}), HTMLNewline >>

\* the walk of the renderer over the tree with the functions RegisterFuncs
\* registers; a node of any other kind writes nothing and is walked into
RECURSIVE HTMLRender(_, _)
HTMLRender(node, schemaOrg) ==
    LET below == Concat([i \in 1..Len(node.children) |->
                           HTMLRender(node.children[i], schemaOrg)])
    IN  CASE node.kind = "Recipe" ->
                 HTMLRenderRecipeOpen(schemaOrg) \o below
                 \o <<HTMLClose("article"), HTMLNewline>>
          [] node.kind = "Title" -> HTMLRenderTitle(node, schemaOrg)
          [] node.kind = "Description" ->
                 << HTMLOpen("div", "description",
                             SchemaOrgAttrs(schemaOrg, {<<"itemprop", "description">>})),
                    HTMLNewline >>
                 \o below \o <<HTMLClose("div"), HTMLNewline>>
          [] node.kind = "Tags" -> HTMLRenderTagsNode(node, schemaOrg)
          [] node.kind = "Yields" -> HTMLRenderYieldsNode(node, schemaOrg)
          [] node.kind = "Ingredients" ->
                 << HTMLOpen("section", "ingredients", {}), HTMLNewline,
                    HTMLOpen("ul", "", {}), HTMLNewline >>
                 \o below
                 \o <<HTMLClose("ul"), HTMLNewline, HTMLClose("section"), HTMLNewline>>
          [] node.kind = "Ingredient" -> HTMLRenderIngredient(node, schemaOrg)
          [] node.kind = "IngredientGroup" -> HTMLRenderIngredientGroup(node) \o below
          [] node.kind = "Instructions" ->
                 << HTMLOpen("section", "instructions",
                             SchemaOrgAttrs(schemaOrg,
                                            {<<"itemprop", "recipeInstructions">>})),
                    HTMLNewline >>
                 \o below \o <<HTMLClose("section"), HTMLNewline>>
          [] OTHER -> IF "children" \in DOMAIN node THEN below ELSE <<>>

IsSchemaAttr(a) == a[1] \in {"itemscope", "itemtype", "itemprop"}

\* the piece q is the piece p with schema.org attributes added, if any
OnlyAddsAttrs(p, q) ==
    IF p.t = "open"
    THEN /\ q.t = "open"
         /\ q.tag = p.tag
         /\ q.class = p.class
         /\ p.attrs \subseteq q.attrs
         /\ \A a \in q.attrs \ p.attrs : IsSchemaAttr(a)
    ELSE q = p

\* C23: the schema.org toggle of the HTMLRenderer only adds attributes. For
\* every Recipe, the output with WithSchemaOrg has every element and class
\* of the output without it (article.recipe, h1, description, tags with a
\* span.tag per tag, yields, ingredients with a li per ingredient,
\* instructions) plus itemscope/itemprop attributes on the same elements,
\* and the output without the toggle has no such attribute.
C23_SchemaOrgOnlyAdds ==
    TransformerDone =>
        LET plain  == HTMLRender(root[1], FALSE)
            schema == HTMLRender(root[1], TRUE)
        IN  /\ Len(schema) = Len(plain)
            /\ \A i \in 1..Len(plain) :
                  /\ OnlyAddsAttrs(plain[i], schema[i])
                  /\ \A a \in plain[i].attrs : ~IsSchemaAttr(a)

----------------------------------------------------------------------------
(* Renders that share one renderer instance.  A render is goldmark's walk   *)
(* over its Recipe, with its own writer.  The instance holds no lock, so    *)
(* the statements of the functions of two renders interleave: a step of a   *)
(* JSON render is one read or write of the fields of the instance.          *)

RegisteredKinds ==
    {"Recipe", "Title", "Description", "Tags", "Yields", "Ingredients", "Ingredient",
     "IngredientGroup", "Instructions"}

\* the callback of the renderer returns WalkSkipChildren for the kind
SkipsChildren(r, kind) ==
    CASE r = "json"     -> kind \notin {"Recipe", "Ingredients"}
      [] r = "markdown" -> kind \notin {"Recipe", "Ingredients", "IngredientGroup"}
      [] r = "html"     -> kind \in {"Title", "Tags", "Yields", "Ingredient"}

\* the calls ast.Walk makes to the registered functions, in order
\* with the kind of the parent of the node
RECURSIVE WalkEvents(_, _, _)
WalkEvents(r, node, parent) ==
    LET below == IF "children" \in DOMAIN node
                 THEN Concat([i \in 1..Len(node.children) |->
                                WalkEvents(r, node.children[i], node.kind)])
                 ELSE <<>>
    IN  IF node.kind \in RegisteredKinds
        THEN <<[node |-> node, entering |-> TRUE, parent |-> parent]>>
             \o (IF SkipsChildren(r, node.kind) THEN <<>> ELSE below)
             \o <<[node |-> node, entering |-> FALSE, parent |-> parent]>>
        ELSE below

\* the loop of JSONRenderer.renderDescription / renderInstructions and the
\* strings.Join after it: the words of the string
JSONJoinParagraphs(node) ==
    JSONJoin([i \in 1..Len(node.children) |->
                JSONTrimSpace(JSONString(rendererExtractText(node.children[i])))],
             ParagraphBreak)

\* the words of the field Amount or Name of the Ingredient: a node that
\* does not say what is behind the pointer holds a string of its own
JSONNodeString(ing, field, ptr) ==
    [ptr |-> IF ptr \in DOMAIN ing THEN ing[ptr] ELSE ing[field],
     len |-> ByteLen(ing[field])]

\* jsonIngredient{Amount: ing.Amount, Name: ing.Name}
JSONIngredient(ing) ==
    [Amount |-> JSONNodeString(ing, "Amount", "AmountPtr"),
     Name   |-> JSONNodeString(ing, "Name", "NamePtr")]

\* node.Parent() is an IngredientGroup; a node without parent is in none
InGroup(ev) == "parent" \in DOMAIN ev /\ ev.parent = "IngredientGroup"

JSONGroup(n) ==
    [Name |-> JSONString(n.Name),
     Ingredients |-> LET ings == ChildrenOfKind(n.children, "Ingredient")
                     IN  [i \in 1..Len(ings) |-> JSONIngredient(ings[i])]]

\* the statements the function registered for the node executes on the
\* fields of the renderer, in order, for a render whose source is src
JSONStatements(ev, src) ==
    LET n == ev.node
    IN  IF ~ev.entering
        THEN IF n.kind = "Recipe" THEN <<JSONStmt("marshal", "", <<>>)>> ELSE <<>>
        ELSE CASE n.kind = "Recipe" ->
                      <<JSONStmt("source", "", src), JSONStmt("reset", "", <<>>)>>
               [] n.kind = "Title" ->
                      <<JSONStmt("set", "Title", JSONString(rendererExtractText(n)))>>
               [] n.kind = "Description" ->
                      <<JSONStmt("set", "Description", JSONJoinParagraphs(n))>>
               [] n.kind = "Tags" ->
                      JSONAppends("Tags", JSONTrimmedPieces(rendererExtractText(n)))
               [] n.kind = "Yields" ->
                      JSONAppends("Yields", JSONTrimmedPieces(rendererExtractText(n)))
               [] n.kind = "Ingredient" ->
                      IF InGroup(ev) THEN <<>>
                      ELSE JSONAppend("Ingredients", JSONIngredient(n))
               [] n.kind = "IngredientGroup" -> JSONAppend("Groups", JSONGroup(n))
               [] n.kind = "Instructions" ->
                      <<JSONStmt("set", "Instructions", JSONJoinParagraphs(n))>>
               [] OTHER -> <<>>

\* the statements of a whole render
JSONRenderStatements(recipeNode, src) ==
    LET evs == WalkEvents("json", recipeNode, "Document")
    IN  Concat([k \in 1..Len(evs) |-> JSONStatements(evs[k], src)])

\* a render through a JSONRenderer of its own
JSONRenderAlone(recipeNode) ==
    JSONRun(NewJSONRenderer, <<>>, <<>>, JSONRenderStatements(recipeNode, 0)).w

\* what one function of the MarkdownRenderer writes
MarkdownWrite(ev) ==
    LET n == ev.node
    IN  IF ev.entering
        THEN CASE n.kind = "Title" -> MarkdownRenderTitle(n)
               [] n.kind = "Description" -> MarkdownRenderDescription(n)
               [] n.kind = "Tags" -> MarkdownRenderTags(n)
               [] n.kind = "Yields" -> MarkdownRenderYields(n)
               [] n.kind = "Ingredients" -> <<"-", "-", "-", "\n", "\n">>
               [] n.kind = "Ingredient" -> MarkdownRenderIngredient(n)
               [] n.kind = "IngredientGroup" -> MarkdownRenderIngredientGroup(n)
               [] n.kind = "Instructions" -> MarkdownRenderInstructions(n)
               [] OTHER -> <<>>
        ELSE IF n.kind = "Ingredients" THEN <<"\n">> ELSE <<>>

\* NewHTMLRenderer(WithSchemaOrg()): the configuration of the shared instance
HTMLInstanceSchemaOrg == TRUE

\* what one function of the HTMLRenderer writes
HTMLWrite(ev, schemaOrg) ==
    LET n == ev.node
    IN  IF ev.entering
        THEN CASE n.kind = "Recipe" -> HTMLRenderRecipeOpen(schemaOrg)
               [] n.kind = "Title" -> HTMLRenderTitle(n, schemaOrg)
               [] n.kind = "Description" ->
                      << HTMLOpen("div", "description",
                                  SchemaOrgAttrs(schemaOrg, {<<"itemprop", "description">>})),
                         HTMLNewline >>
               [] n.kind = "Tags" -> HTMLRenderTagsNode(n, schemaOrg)
               [] n.kind = "Yields" -> HTMLRenderYieldsNode(n, schemaOrg)
               [] n.kind = "Ingredients" ->
                      << HTMLOpen("section", "ingredients", {}), HTMLNewline,
                         HTMLOpen("ul", "", {}), HTMLNewline >>
               [] n.kind = "Ingredient" -> HTMLRenderIngredient(n, schemaOrg)
               [] n.kind = "IngredientGroup" -> HTMLRenderIngredientGroup(n)
               [] n.kind = "Instructions" ->
                      << HTMLOpen("section", "instructions",
                                  SchemaOrgAttrs(schemaOrg,
                                                 {<<"itemprop", "recipeInstructions">>})),
                         HTMLNewline >>
               [] OTHER -> <<>>
        ELSE CASE n.kind = "Recipe" -> <<HTMLClose("article"), HTMLNewline>>
               [] n.kind = "Description" -> <<HTMLClose("div"), HTMLNewline>>
               [] n.kind = "Ingredients" ->
                      <<HTMLClose("ul"), HTMLNewline, HTMLClose("section"), HTMLNewline>>
               [] n.kind = "Instructions" -> <<HTMLClose("section"), HTMLNewline>>
               [] OTHER -> <<>>

MaxRenders == 2

\* five Recipes: "# A" with the ingredient "- *2* x", "# B" with the tags
\* "x, y", "# C" with the description "d", "# G" with the group "## G1" of
\* the ingredient "- *2* a", "# S" with the description "<b> </b>", whose
\* text is one space
RenderDocs ==
    << WithIds(<<Heading(1, <<Text(<<"A">>)>>), ThematicBreak,
                 List(<<ListItem(<<TextBlock(<<Emphasis(1, <<Text(<<"2">>)>>),
                                               Text(<<" ", "x">>)>>)>>)>>)>>),
       WithIds(<<Heading(1, <<Text(<<"B">>)>>),
                 Paragraph(<<Emphasis(1, <<Text(<<"x", ",", " ", "y">>)>>)>>),
                 ThematicBreak>>),
       WithIds(<<Heading(1, <<Text(<<"C">>)>>), Paragraph(<<Text(<<"d">>)>>),
                 ThematicBreak>>),
       WithIds(<<Heading(1, <<Text(<<"G">>)>>), ThematicBreak,
                 GroupHeading(2, 1),
                 List(<<ListItem(<<TextBlock(<<Emphasis(1, <<Text(<<"2">>)>>),
                                               Text(<<" ", "a">>)>>)>>)>>)>>),
       WithIds(<<Heading(1, <<Text(<<"S">>)>>),
                 Paragraph(<<RawHTML(<<"<", "b", ">">>), Text(<<" ">>),
                             RawHTML(<<"<", "/", "b", ">">>)>>),
                 ThematicBreak>>) >>

RenderRecipes == [d \in DOMAIN RenderDocs |-> TransformRecipeNode(RenderDocs[d])]

RenderInit ==
    /\ renderer \in {"json", "markdown", "html"}
    /\ jsonRenderer = NewJSONRenderer
    /\ heap = <<>>
    /\ \E ds \in [1..MaxRenders -> DOMAIN RenderDocs] :
          /\ \A i, j \in 1..MaxRenders : i < j => ds[i] < ds[j]
          /\ walks = [i \in 1..MaxRenders |->
                        [recipe |-> RenderRecipes[ds[i]],
                         events |-> IF renderer = "json"
                                    THEN JSONRenderStatements(RenderRecipes[ds[i]], i)
                                    ELSE WalkEvents(renderer, RenderRecipes[ds[i]], "Document"),
                         log |-> <<>>,
                         w |-> <<>>]]
    /\ pc = "render"
    /\ doc = <<>>
    /\ pipeline = "none"
    /\ ParserStart
    /\ root = <<>>
    /\ recipe = NilNode
    /\ text = <<>>
    /\ out = NoOut

\* render i executes its next statement on the shared JSONRenderer; a
\* runtime error ends the program
JSONRenderStep ==
    /\ pc = "render"
    /\ renderer = "json"
    /\ \E i \in DOMAIN walks :
          /\ walks[i].events # <<>>
          /\ \E res \in JSONOutcomes([r |-> NewJSONRenderer, h |-> <<>>], jsonRenderer, heap,
                                     [j \in DOMAIN walks |-> walks[j].log], i,
                                     Head(walks[i].events)) :
                 /\ jsonRenderer' = res.r
                 /\ heap' = res.h
                 /\ walks' = [walks EXCEPT
                        ![i].events = IF res.err # "" THEN <<>> ELSE Tail(@),
                        ![i].log = res.log,
                        ![i].w = @ \o res.w]
                 /\ pc' = IF res.err # "" THEN "crashed" ELSE pc
    /\ UNCHANGED <<textVars, doc, pipeline, renderer, parserVars, root, recipe>>

\* one function of the shared MarkdownRenderer runs for render i (the
\* functions touch nothing but the writer of their own render)
MarkdownRenderStep ==
    /\ pc = "render"
    /\ renderer = "markdown"
    /\ \E i \in DOMAIN walks :
          /\ walks[i].events # <<>>
          /\ walks' = [walks EXCEPT
                          ![i].events = Tail(@),
                          ![i].w = @ \o MarkdownWrite(Head(walks[i].events))]
    /\ UNCHANGED <<pc, textVars, doc, pipeline, renderer, jsonRenderer, heap, parserVars,
                   root, recipe>>

\* one function of the shared HTMLRenderer runs for render i
HTMLRenderStep ==
    /\ pc = "render"
    /\ renderer = "html"
    /\ \E i \in DOMAIN walks :
          /\ walks[i].events # <<>>
          /\ walks' = [walks EXCEPT
                          ![i].events = Tail(@),
                          ![i].w = @ \o HTMLWrite(Head(walks[i].events),
                                                  HTMLInstanceSchemaOrg)]
    /\ UNCHANGED <<pc, textVars, doc, pipeline, renderer, jsonRenderer, heap, parserVars,
                   root, recipe>>

RenderNext ==
    \/ JSONRenderStep
    \/ MarkdownRenderStep
    \/ HTMLRenderStep

SpecRender == RenderInit /\ [][RenderNext]_vars

\* the output of the render when it runs alone
RenderAlone(r, recipeNode) ==
    CASE r = "json"     -> JSONRenderAlone(recipeNode)
      [] r = "markdown" -> MarkdownRender(recipeNode)
      [] r = "html"     -> HTMLRender(recipeNode, HTMLInstanceSchemaOrg)

\* C22: the serializers share no mutable state. When renders of different
\* Recipes run interleaved through one JSONRenderer, HTMLRenderer or
\* MarkdownRenderer instance, the output of every finished render is the
\* output it produces when it runs alone.
C22_RendersIndependent ==
    \A i \in DOMAIN walks :
        walks[i].events = <<>> => walks[i].w = RenderAlone(renderer, walks[i].recipe)

----------------------------------------------------------------------------
(* The arrays of the extension's JSON export: nil slices and empty slices *)

MaxSchemaBlocks == 4

\* metadata paragraphs whose comma-separated segments are all empty, next
\* to ordinary ones, and the blocks every parser action needs
SchemaBlocks ==
    { Heading(1, <<Text(<<"T">>)>>),
      Heading(2, <<Text(<<"G">>)>>),
      Paragraph(<<Emphasis(1, <<Text(<<",">>)>>)>>),
      Paragraph(<<Emphasis(1, <<Text(<<"a", ",", "b">>)>>)>>),
      Paragraph(<<Emphasis(2, <<Text(<<",">>)>>)>>),
      OneItemList,
      ThematicBreak,
      CodeBlock(<<"c">>) }

SchemaInit == DocInit(SchemaBlocks, MaxSchemaBlocks)

SpecSchema == SchemaInit /\ [][Next]_vars

\* splitTags declares `var tags []string` and only appends: the slice it
\* returns is nil exactly when no segment was appended
splitTagsIsNil(tags) == tags = <<>>

\* JSONRenderer.processMetadata, `data.Tags = n.Tags`: whether data.Tags is
\* a nil slice after the children were processed
RECURSIVE JSONTagsIsNil(_, _)
JSONTagsIsNil(children, isNil) ==
    IF children = <<>> THEN isNil
    ELSE JSONTagsIsNil(Tail(children),
             IF Head(children).kind = "RecipeTags"
             THEN splitTagsIsNil(Head(children).Tags)
             ELSE isNil)

\* JSONRenderer.buildRecipeData: Tags starts as []string{}, and every
\* RecipeMetadata child runs processMetadata
RECURSIVE RecipeDataTagsIsNil(_, _)
RecipeDataTagsIsNil(children, isNil) ==
    IF children = <<>> THEN isNil
    ELSE RecipeDataTagsIsNil(Tail(children),
             IF Head(children).kind = "RecipeMetadata"
             THEN JSONTagsIsNil(Head(children).children, isNil)
             ELSE isNil)

\* encoding/json on a slice field: null for a nil slice, an array otherwise
JSONSlice(isNil) == IF isNil THEN "null" ELSE "array"

\* the slices of an IngredientGroup start as empty literals and are only
\* appended to
RECURSIVE JSONGroupShape(_)
JSONGroupShape(g) ==
    [ingredients       |-> JSONSlice(FALSE),
     ingredient_groups |-> [i \in 1..Len(g.IngredientGroups) |->
                               JSONGroupShape(g.IngredientGroups[i])]]

\* what the encoder writes for the four slice fields of RecipeData
JSONShape(recipeNode) ==
    LET data == buildRecipeData(recipeNode)
    IN  [tags              |-> JSONSlice(RecipeDataTagsIsNil(recipeNode.children, FALSE)),
         yields            |-> JSONSlice(FALSE),
         ingredients       |-> JSONSlice(FALSE),
         ingredient_groups |-> [i \in 1..Len(data.IngredientGroups) |->
                                   JSONGroupShape(data.IngredientGroups[i])]]

RECURSIVE GroupShapeIsArrays(_)
GroupShapeIsArrays(g) ==
    /\ g.ingredients = "array"
    /\ \A i \in DOMAIN g.ingredient_groups : GroupShapeIsArrays(g.ingredient_groups[i])

\* C24: in the JSON export of the extension the fields tags, yields,
\* ingredients and ingredient_groups are always arrays, empty when there is
\* nothing to put in them and never null, also when every comma-separated
\* segment of the tags paragraph is empty; and every group carries its own
\* ingredients and ingredient_groups arrays, at every depth.
C24_ArraysNeverNull ==
    ParserDone =>
        LET shape == JSONShape(root[1])
        IN  /\ shape.tags = "array"
            /\ shape.yields = "array"
            /\ shape.ingredients = "array"
            /\ \A i \in DOMAIN shape.ingredient_groups :
                   GroupShapeIsArrays(shape.ingredient_groups[i])

----------------------------------------------------------------------------
(* pkg/recipe.go: UpdateAST on the document Transform built from a source *)

\* the byte past the length of a slice in an array that the runtime has
\* allocated for it
NulByte == "U+0000"

\* a []byte: the array behind it from its first byte to its capacity, and
\* its length
ByteSlice(s, capacity) ==
    [array |-> Bytes(s) \o [i \in 1..(capacity - ByteLen(s)) |-> NulByte],
     len   |-> ByteLen(s)]

\* the capacities of the source the caller hands in: a slice cut to its
\* length, []byte(s) on the heap (a size class), []byte(s) in the buffer of
\* 32 bytes on the stack, os.ReadFile (at least 512)
SourceCaps(n) ==
    {n, RoundUpSize(n), Max({n + 1, 512})} \cup (IF n <= 32 THEN {32} ELSE {})

\* text.Segment.Value(source) of the segment [start, stop): the bytes
\* source[start:stop]; the stop of a slice expression is tested against
\* the capacity of the slice, a stop behind it is a slice out of range
OutOfRange == <<"!", "r", "a", "n", "g", "e">>

SegmentValue(source, start, stop) ==
    IF stop <= Len(source.array)
    THEN FromBytes(SubSeq(source.array, start + 1, stop))
    ELSE OutOfRange

\* findText of updateTextContent finds a *gast.Text in the node
RECURSIVE HasText(_)
HasText(n) ==
    \/ n.kind = "Text"
    \/ /\ "children" \in DOMAIN n
       /\ \E i \in DOMAIN n.children : HasText(n.children[i])

\* the node with the value of the first Text in depth-first order replaced
RECURSIVE SetFirstText(_, _)
SetFirstText(n, val) ==
    IF n.kind = "Text" THEN [n EXCEPT !.value = val]
    ELSE LET i == Min({j \in DOMAIN n.children : HasText(n.children[j])})
         IN  [n EXCEPT !.children[i] = SetFirstText(@, val)]

\* recipemd.updateTextContent: t.Segment = text.NewSegment(0, len(newText)),
\* len the number of bytes; the node with the text that a later read of the
\* segment in the source gives
updateTextContent(node, newText, source) ==
    IF HasText(node) THEN SetFirstText(node, SegmentValue(source, 0, ByteLen(newText)))
    ELSE node

\* strings.Join of the yields' String()
YieldStrs(yields) == Join([i \in 1..Len(yields) |-> YieldString(yields[i])], <<",", " ">>)

\* the loop without the tests `len(recipe.Tags) > 0`, `len(recipe.Yields) > 0`
UpdateStep_NoEmptyTest(n, r, source) ==
    IF n.kind = "Title" THEN updateTextContent(n, r.Title, source)
    ELSE IF n.kind = "Tags"
    THEN updateTextContent(n, Join(r.Tags, <<",", " ">>), source)
    ELSE IF n.kind = "Yields"
    THEN updateTextContent(n, YieldStrs(r.Yields), source)
    ELSE n

\* one turn of the loop of UpdateAST over the children of the Recipe node
UpdateStep(n, r, source) ==
    IF n.kind = "Title" THEN updateTextContent(n, r.Title, source)
    ELSE IF n.kind = "Tags" /\ Len(r.Tags) > 0
    THEN updateTextContent(n, Join(r.Tags, <<",", " ">>), source)
    ELSE IF n.kind = "Yields" /\ Len(r.Yields) > 0
    THEN updateTextContent(n, YieldStrs(r.Yields), source)
    ELSE n

\* recipemd.UpdateAST on the children of a document
UpdateAST(docChildren, r, source) ==
    LET idx == {i \in 1..Len(docChildren) : docChildren[i].kind = "Recipe"}
    IN  IF idx = {} THEN docChildren
        ELSE [docChildren EXCEPT ![Min(idx)].children =
                 [i \in 1..Len(@) |-> UpdateStep(@[i], r, source)]]

\* the sources: "# T / *a, b* / **2 c** / --- / - *2* x / --- / s",
\* "# T / d / --- / - x", "d / --- / - x", "*a* / # T / **3** / ---",
\* "# T / *a* / ---", "# AB / **2** / --- / - y", "# T", "# (1/2) / **2** /
\* ---" with the vulgar fraction U+00BD, "--- / - x"
UpdateSources ==
    { <<"#", " ", "T", "\n", "\n", "*", "a", ",", " ", "b", "*", "\n", "\n", "*", "*", "2", " ", "c", "*", "*", "\n", "\n", "-", "-", "-", "\n", "\n", "-", " ", "*", "2", "*", " ", "x", "\n", "\n", "-", "-", "-", "\n", "\n", "s", "\n">>,
      <<"#", " ", "T", "\n", "\n", "d", "\n", "\n", "-", "-", "-", "\n", "\n", "-", " ", "x", "\n">>,
      <<"d", "\n", "\n", "-", "-", "-", "\n", "\n", "-", " ", "x", "\n">>,
      <<"*", "a", "*", "\n", "\n", "#", " ", "T", "\n", "\n", "*", "*", "3", "*", "*", "\n", "\n", "-", "-", "-", "\n">>,
      <<"#", " ", "T", "\n", "\n", "*", "a", "*", "\n", "\n", "-", "-", "-", "\n">>,
      <<"#", " ", "A", "B", "\n", "\n", "*", "*", "2", "*", "*", "\n", "\n", "-", "-", "-", "\n", "\n", "-", " ", "y", "\n">>,
      <<"#", " ", "T", "\n">>,
      <<"#", " ", "U+00BD", "\n", "\n", "*", "*", "2", "*", "*", "\n", "\n", "-", "-", "-", "\n">>,
      <<"-", "-", "-", "\n", "\n", "-", " ", "x", "\n">> }

\* the Recipe structs handed to UpdateAST besides the one just extracted
UpdateRecipes ==
    { [EmptyRecipe EXCEPT !.Title = <<"X">>, !.Tags = << <<"u">> >>,
                          !.Yields = << [Amount |-> <<"3">>, Unit |-> <<"l">>] >>],
      [EmptyRecipe EXCEPT !.Title = <<"X", "Y">>],
      [EmptyRecipe EXCEPT !.Tags = << <<"u">>, <<"v">> >>],
      [EmptyRecipe EXCEPT !.Title = <<"C", "r", "U+00E8", "m", "e">>],
      EmptyRecipe }

UpdateInit ==
    /\ text \in UpdateSources
    /\ doc = ReadMarkdown(text)
    /\ pipeline = "transformer"
    /\ pc = "transform"
    /\ ParserStart
    /\ RenderStart
    /\ root = doc
    /\ recipe = NilNode
    /\ out = NoOut

\* UpdateAST(doc, r, source): on the document as read (no Recipe node yet)
\* or after Transform and ExtractRecipe; out keeps the struct handed in
\* and the document before the call
CallUpdateAST ==
    /\ pc \in {"transform", "extracted"}
    /\ \E r \in UpdateRecipes \cup (IF pc = "extracted" THEN {recipe} ELSE {}),
          capacity \in SourceCaps(ByteLen(text)) :
          /\ out' = [fn |-> "UpdateAST", segs |-> r, val |-> root, cap |-> capacity]
          /\ root' = UpdateAST(root, r, ByteSlice(text, capacity))
    /\ pc' = "updated"
    /\ UNCHANGED <<text, doc, pipeline, renderVars, parserVars, recipe>>

\* ExtractRecipe(doc, source) after the update
CallExtractUpdated ==
    /\ pc = "updated"
    /\ recipe' = ExtractRecipe(root)
    /\ pc' = "reextracted"
    /\ UNCHANGED <<textVars, doc, pipeline, renderVars, parserVars, root>>

UpdateNext ==
    \/ TransformerTransform
    \/ CallExtractRecipe
    \/ CallUpdateAST
    \/ CallExtractUpdated

SpecUpdate == UpdateInit /\ [][UpdateNext]_vars

\* the document before UpdateAST held a Recipe node
UpdatedARecipe ==
    /\ out.fn = "UpdateAST"
    /\ \E i \in DOMAIN out.val : out.val[i].kind = "Recipe"

\* C25: after UpdateAST(doc, recipe, source) on a document that holds a
\* Recipe node, ExtractRecipe returns recipe.Title as Title, recipe.Tags as
\* Tags when they are not empty and recipe.Yields as Yields when they are
\* not empty; and UpdateAST with the Recipe just extracted changes nothing
\* ExtractRecipe observes.
C25_UpdateThenExtract ==
    (pc = "reextracted" /\ UpdatedARecipe) =>
        /\ recipe.Title = out.segs.Title
        /\ out.segs.Tags # <<>> => recipe.Tags = out.segs.Tags
        /\ out.segs.Yields # <<>> => recipe.Yields = out.segs.Yields
        /\ out.segs = ExtractRecipe(out.val) => recipe = out.segs

----------------------------------------------------------------------------
(* pkg/recipe.go: BuildAST, and ExtractRecipe of the document it returns *)

\* gast.NewString(value)
String(v) == Node("String", 0, 0, v, <<>>, <<>>)

\* strings.Split(s, "\n\n")
RECURSIVE SplitParagraphs(_)
SplitParagraphs(s) ==
    LET cuts == {i \in 1..(Len(s) - 1) : s[i] = "\n" /\ s[i + 1] = "\n"}
    IN  IF cuts = {} THEN <<s>>
        ELSE <<SubSeq(s, 1, Min(cuts) - 1)>>
                 \o SplitParagraphs(SubSeq(s, Min(cuts) + 2, Len(s)))

\* one paragraph with a String child per piece
BuildParagraphs(s) ==
    LET ps == SplitParagraphs(s)
    IN  [i \in 1..Len(ps) |-> Paragraph(<<String(ps[i])>>)]

\* Amount.String
AmountString(a) == IF a.Unit = <<>> THEN a.Quantity ELSE a.Quantity \o <<" ">> \o a.Unit

\* the ast.Ingredient node of an Ingredient struct
BuildIngredient(e) ==
    [kind   |-> "Ingredient",
     Amount |-> IF e.Amount # NilNode THEN AmountString(e.Amount) ELSE <<>>,
     Name   |-> e.Name]

\* the children of the Ingredients node, one per entry
BuildEntry(e) ==
    IF "Ingredients" \in DOMAIN e
    THEN [kind |-> "IngredientGroup", Name |-> e.Name,
          children |-> [i \in 1..Len(e.Ingredients) |-> BuildIngredient(e.Ingredients[i])]]
    ELSE BuildIngredient(e)

\* recipemd.BuildAST: the children of the document it returns
BuildAST(r) ==
    LET titleN == IF r.Title # <<>>
                  THEN <<Wrap("Title", <<Heading(1, <<String(r.Title)>>)>>)>> ELSE <<>>
        descN  == IF r.Description # <<>>
                  THEN <<Wrap("Description", BuildParagraphs(r.Description))>> ELSE <<>>
        tagsN  == IF Len(r.Tags) > 0
                  THEN <<Wrap("Tags", <<Paragraph(<<Emphasis(1,
                            <<String(Join(r.Tags, <<",", " ">>))>>)>>)>>)>>
                  ELSE <<>>
        yieldN == IF Len(r.Yields) > 0
                  THEN <<Wrap("Yields", <<Paragraph(<<Emphasis(2,
                            <<String(YieldStrs(r.Yields))>>)>>)>>)>>
                  ELSE <<>>
        ingsN  == IF Len(r.Ingredients) > 0
                  THEN <<Wrap("Ingredients",
                              [i \in 1..Len(r.Ingredients) |-> BuildEntry(r.Ingredients[i])])>>
                  ELSE <<>>
        instN  == IF r.Instructions # <<>>
                  THEN <<Wrap("Instructions", BuildParagraphs(r.Instructions))>> ELSE <<>>
    IN  << [kind |-> "Recipe",
            children |-> titleN \o descN \o tagsN \o yieldN \o ingsN \o instN] >>

\* the Recipe structs handed to BuildAST
BuildFlour == [Name |-> <<"f">>, Amount |-> [Quantity |-> <<"1">>, Unit |-> <<"c">>]]

BuildSalt == [Name |-> <<"s">>, Amount |-> NilNode]

BuildRecipes ==
    [Title        : {<<>>, <<"T">>},
     Description  : {<<>>, <<"d">>, <<"d", "\n", "\n", "e">>},
     Tags         : {<<>>, << <<"a">> >>, << <<"a">>, <<"b">> >>, << <<"a", ",", "b">> >>},
     Yields       : {<<>>,
                     << [Amount |-> <<"4">>, Unit |-> <<"l">>] >>,
                     << [Amount |-> <<"2">>, Unit |-> <<>>],
                        [Amount |-> <<"3">>, Unit |-> <<"k", "g">>] >>,
                     << [Amount |-> <<"1", " ", "1", "/", "2">>, Unit |-> <<"c">>] >>},
     Ingredients  : {<<>>,
                     <<BuildFlour, BuildSalt>>,
                     <<BuildSalt, [Name |-> <<"G">>, Ingredients |-> <<BuildFlour>>]>>},
     Instructions : {<<>>, <<"s">>}]

BuildInit ==
    /\ recipe \in BuildRecipes
    /\ pc = "build"
    /\ pipeline = "transformer"
    /\ doc = <<>>
    /\ root = <<>>
    /\ ParserStart
    /\ RenderStart
    /\ text = <<>>
    /\ out = NoOut

\* doc := BuildAST(recipe)
CallBuildAST ==
    /\ pc = "build"
    /\ root' = BuildAST(recipe)
    /\ pc' = "built"
    /\ UNCHANGED <<textVars, doc, pipeline, renderVars, parserVars, recipe>>

\* ExtractRecipe(doc, nil) of the document built; out.val is the struct read
CallExtractBuilt ==
    /\ pc = "built"
    /\ out' = [fn |-> "ExtractBuilt", segs |-> <<>>, val |-> ExtractRecipe(root)]
    /\ pc' = "built_extracted"
    /\ UNCHANGED <<text, doc, pipeline, renderVars, parserVars, root, recipe>>

BuildNext ==
    \/ CallBuildAST
    \/ CallExtractBuilt

SpecBuild == BuildInit /\ [][BuildNext]_vars

\* the sections of a Recipe struct that are not empty, in the order of the
\* specification
NonEmptySections(r) ==
    SelectSeq(<<"Title", "Description", "Tags", "Yields", "Ingredients", "Instructions">>,
              LAMBDA f : r[f] # <<>>)

\* the document has one child, a Recipe node, whose children are exactly
\* the non-empty sections in order
BuiltSectionsInOrder ==
    /\ Len(root) = 1
    /\ root[1].kind = "Recipe"
    /\ [i \in 1..Len(root[1].children) |-> root[1].children[i].kind]
           = NonEmptySections(recipe)

\* C26: ExtractRecipe(BuildAST(r)) = r for every Recipe struct (a tag that
\* contains a comma and a yield whose amount contains a space included), and
\* the document BuildAST returns has one child, a Recipe node, whose
\* children are the non-empty sections in the order Title, Description,
\* Tags, Yields, Ingredients, Instructions.
C26_BuildThenExtract ==
    /\ pc \in {"built", "built_extracted"} => BuiltSectionsInOrder
    /\ pc = "built_extracted" => out.val = recipe

----------------------------------------------------------------------------
(* The document after Transform *)

\* C27: when either Transform has returned, whatever the input (the empty
\* document, a document without thematic break or without title included),
\* the document has exactly one child, the Recipe node: every block that was
\* a child of the document is below the Recipe node or in no tree at all.
C27_OnlyChildIsRecipe ==
    (ParserDone \/ TransformerDone) =>
        /\ Len(root) = 1
        /\ root[1].kind = "Recipe"
        /\ \A i \in DOMAIN doc : \A j \in DOMAIN root : root[j] # doc[i]

\* recipeTransformer has returned on a document with a thematic break, a
\* block it re-parented and a block it left for the removing loop
C27_Witness ==
    /\ TransformerDone
    /\ \E i \in DOMAIN doc : doc[i].kind = "ThematicBreak"
    /\ ReparentedIds(root[1]) # {}
    /\ Len(DetachReparented(doc, root[1])) > 1
    /\ Len(root) = 1

----------------------------------------------------------------------------
(* The stack of open groups of recipeParser.Transform *)

\* the Levels of the groups on the stack, bottom first
StackLevels == [k \in DOMAIN ingredientGroupStack |-> groups[ingredientGroupStack[k]].Level]

\* the entry at position k is a child of the entry below it
StackEntryIsChild(k) ==
    \E c \in DOMAIN groups[ingredientGroupStack[k - 1]].children :
        groups[ingredientGroupStack[k - 1]].children[c] = GroupRef(ingredientGroupStack[k])

\* a heading of the ingredients section has been dealt with
HeadingSeenInIngredients ==
    \E i \in 1..(pos - 1) : doc[i].kind = "Heading" /\ RefSection(doc, i) = "ingredients"

\* C28: at every step of recipeParser.Transform the Levels of the groups on
\* the open-group stack increase strictly from bottom to top, every entry
\* above the bottom is a child of the entry below it, the bottom entry is a
\* top-level group, and a call of addIngredientGroup leaves the new group on
\* top of the stack, once; once a heading of the ingredients section has
\* been seen the stack is never empty again and no later list item becomes
\* an ungrouped ingredient.
C28_OpenGroupStack ==
    pipeline = "parser" =>
        /\ \A k \in 1..(Len(ingredientGroupStack) - 1) : StackLevels[k] < StackLevels[k + 1]
        /\ \A k \in 2..Len(ingredientGroupStack) : StackEntryIsChild(k)
        /\ ingredientGroupStack # <<>> =>
              \E t \in DOMAIN topLevelGroups : topLevelGroups[t] = ingredientGroupStack[1]
        /\ (handled # <<>> /\ handled[Len(handled)].effect = "group") =>
              /\ ingredientGroupStack[Len(ingredientGroupStack)] = Len(groups)
              /\ Cardinality({k \in DOMAIN ingredientGroupStack :
                                 ingredientGroupStack[k] = Len(groups)}) = 1
        /\ HeadingSeenInIngredients =>
              /\ ingredientGroupStack # <<>>
              /\ currentIngredientList = NilNode

----------------------------------------------------------------------------
(* The link of an ingredient *)

\* C29: whenever parseIngredient returns an ingredient with a Link, the
\* destination in Link and the Name come from one and the same link node of
\* the item, however many link nodes the item has.
C29_LinkAndNameFromOneNode ==
    ParserDone =>
        \A k \in 1..Len(ParsedItems) :
            ParsedItems[k].Link # Nil =>
                \E i \in RefLinks(ItemLine) :
                    /\ ItemLine[i].dest = ParsedItems[k].Link
                    /\ TrimSpace(RefFlatten(ItemLine[i])) = ParsedItems[k].Name

----------------------------------------------------------------------------
(* What UpdateAST leaves alone *)

\* a node without the bytes its Text nodes read
RECURSIVE Shape(_)
Shape(n) ==
    IF n.kind = "Text" THEN [n EXCEPT !.value = <<>>]
    ELSE IF "children" \in DOMAIN n
    THEN [n EXCEPT !.children = [i \in 1..Len(@) |-> Shape(@[i])]]
    ELSE n

\* the children of the first Recipe node of a document, <<>> without one
RecipeNodeChildren(docChildren) ==
    LET idx == {i \in 1..Len(docChildren) : docChildren[i].kind = "Recipe"}
    IN  IF idx = {} THEN <<>> ELSE docChildren[Min(idx)].children

\* C30: UpdateAST changes only the text of the Title, Tags and Yields nodes:
\* the Recipe node keeps the number and the order of its children, the
\* Description, the Ingredients and the Instructions are unchanged, the Tags
\* (Yields) are unchanged when the struct has no Tags (Yields), and on a
\* document without a Recipe node UpdateAST changes nothing.
C30_UpdateFrame ==
    (pc = "updated" /\ out.fn = "UpdateAST") =>
        LET before == RecipeNodeChildren(out.val)
            after  == RecipeNodeChildren(root)
        IN  /\ ~UpdatedARecipe => root = out.val
            /\ Len(root) = Len(out.val)
            /\ \A i \in DOMAIN root : root[i].kind # "Recipe" => root[i] = out.val[i]
            /\ Len(after) = Len(before)
            /\ \A i \in DOMAIN before :
                  /\ Shape(after[i]) = Shape(before[i])
                  /\ before[i].kind \notin {"Title", "Tags", "Yields"} => after[i] = before[i]
                  /\ (before[i].kind = "Tags" /\ out.segs.Tags = <<>>) => after[i] = before[i]
                  /\ (before[i].kind = "Yields" /\ out.segs.Yields = <<>>)
                        => after[i] = before[i]
            /\ ExtractRecipe(root).Description = ExtractRecipe(out.val).Description
            /\ ExtractRecipe(root).Ingredients = ExtractRecipe(out.val).Ingredients
            /\ ExtractRecipe(root).Instructions = ExtractRecipe(out.val).Instructions

\* UpdateAST has changed the title of a Recipe that has Tags, Yields,
\* Ingredients and Instructions, with a struct that has no Tags
C30_Witness ==
    /\ pc = "updated"
    /\ UpdatedARecipe
    /\ root # out.val
    /\ out.segs.Tags = <<>>
    /\ \A k \in {"Title", "Tags", "Yields", "Ingredients", "Instructions"} :
           \E i \in DOMAIN RecipeNodeChildren(root) : RecipeNodeChildren(root)[i].kind = k

====
